---------------------------- MODULE Spec2Model ----------------------------
(***************************************************************************)
(* A model of heritage_crawl: the dedup-and-store gate of the crawler      *)
(* (crawler/pipelines.py), the idempotent upsert layer of the two          *)
(* ingestion scripts (data_process/ingest_jsonl_to_db.py and               *)
(* ingest_jsonl_to_polardb.py), the chunking engine (split_text,           *)
(* make_chunks, the offset recovery of convert and auto_chunk_all), the    *)
(* text synthesizer and table interpreter of the spider                    *)
(* (crawler/spiders/focused_spider.py), the readers of line-delimited      *)
(* files (convert and the two main functions) on lines that are no JSON,   *)
(* stable_id, and the loop of make_chunks one iteration at a time.         *)
(*                                                                         *)
(* Conventions.  A Python str or bytes value is a sequence of one-character*)
(* strings; the empty sequence << >> stands for "", b"", [] and None alike *)
(* wherever the code tests the value only for truth (`if not url`,         *)
(* `t or ""`, `lines and ...`, `raw_checksum or ...`).  A hash (sha1, md5) *)
(* is modelled as collision free: the digest of x is the pair <<tag, x>>.  *)
(* A character outside ASCII is written as its code point: "U+3002" is the *)
(* ideographic full stop, "U+FF1A" the fullwidth colon.                    *)
(***************************************************************************)
EXTENDS Integers, Sequences, FiniteSets, TLC

VARIABLES
    \* ---- crawler/pipelines.py: DedupeAndStorePipeline ----
    seen,        \* table seen: url -> checksum (fetched_at is not modelled)
    text_index,  \* table text_index: checksum -> url
    jsonl,       \* data/text/<domain>.jsonl: domain -> sequence of records
    last,        \* the last process_item call: its item and its outcome
    ended,       \* history: urls of the calls that ended short, dup-content or accepted
    accepted,    \* history: [url, text] of every accepted submission
    pc,          \* position inside a process_item call that is in progress
    cur,         \* the item of the call in progress
    crashes,     \* number of crashes so far
    \* ---- the PostgreSQL store of the two ingestion scripts ----
    impl,        \* the script of this behaviour: "db" or "polardb"
    db,          \* committed store: [docs, chunks, seq]
                 \*   docs:   url -> row of table documents
                 \*   chunks: <<doc_id, chunk_index>> -> row of table chunks
                 \*   seq:    last value of the sequence behind documents.id
    clock,       \* now(): the number of transactions begun so far
    phase,       \* where the behaviour stands: prior runs, a run, its repetition
    input,       \* history: the input of the run under study
    base,        \* history: the store before the run under study
    after,       \* history: the store and the error flag after the previous run
    err,         \* the last run ended with an exception
    nruns,       \* number of runs or operations made so far
    \* ---- the functions of the text synthesizer and the chunking engine ----
    fn,          \* the function called last ("none" before the first call)
    arg,         \* its arguments
    res          \* what it returned

gateVars == <<seen, text_index, jsonl, last, ended, accepted, pc, cur>>

storeVars == <<impl, db, clock, phase, input, base, after, err, nruns>>

callVars == <<fn, arg, res>>

vars == <<seen, text_index, jsonl, last, ended, accepted, pc, cur, crashes,
          impl, db, clock, phase, input, base, after, err, nruns,
          fn, arg, res>>

-----------------------------------------------------------------------------
(* Bounds *)

\* crashes of the crawler process in one behaviour
MaxCrashes == 2

-----------------------------------------------------------------------------
(* Strings *)

Rep(c, n) == [i \in 1..n |-> c]

\* the characters str.strip() removes that occur in the modelled texts
Whitespace == {" ", "\n"}

RECURSIVE LStrip(_)
LStrip(s) == IF s # << >> /\ Head(s) \in Whitespace THEN LStrip(Tail(s)) ELSE s

RECURSIVE RStrip(_)
RStrip(s) ==
    IF s # << >> /\ s[Len(s)] \in Whitespace
    THEN RStrip(SubSeq(s, 1, Len(s) - 1))
    ELSE s

Strip(s) == RStrip(LStrip(s))

\* "\n".join(lines)
RECURSIVE JoinLines(_)
JoinLines(lines) ==
    IF lines = << >> THEN << >>
    ELSE IF Len(lines) = 1 THEN lines[1]
    ELSE lines[1] \o <<"\n">> \o JoinLines(Tail(lines))

\* hashlib.sha1(x).hexdigest()
Sha1(x) == <<"sha1", x>>

-----------------------------------------------------------------------------
(* crawler/pipelines.py *)

\* the minimum length of a stored text (pipelines.py line 86)
MIN_TEXT_LEN == 20

\* texts a spider can hand over
T10  == Rep("a", 10)
T20  == Rep("a", 20)
T20p == <<" ">> \o Rep("a", 19) \o <<"\n">>   \* 21 characters, 19 after trimming
T21p == <<" ">> \o Rep("a", 20) \o <<" ">>    \* 22 characters, 20 after trimming: T20
TB   == Rep("b", 20)

\* raw HTML files on disk (<< >>: html_path missing or the file absent)
Raw1 == <<"<", "1", ">">>

\* trafilatura.extract(raw) or "": the text the library extracts from a page.
\* The result is not trimmed by the pipeline.
Extract(raw) ==
    IF raw = Raw1 THEN Rep("b", 20) \o <<"\n">>
    ELSE << >>

\* tldextract.extract(url).domain
Tld(url) == IF url = "u2" THEN "d2" ELSE "d1"

Urls == {"", "u1", "u2"}

\* the domain field of an item: absent, or set by the spider
Domains(u) == IF u = "u2" THEN {"", "d1"} ELSE {""}

Contents ==
    { [text_lines |-> << >>, bodytext |-> << >>, text |-> t] :
        t \in {<< >>, T10, T20, T20p, T21p} }
    \cup { [text_lines |-> <<Rep("a", 10), Rep("a", 9)>>, bodytext |-> << >>,
            text |-> T10],
           [text_lines |-> << >>, bodytext |-> <<Rep("a", 10), Rep("a", 8)>>,
            text |-> TB] }

Items ==
    UNION { { [url |-> u, domain |-> d, raw |-> r,
               text_lines |-> c.text_lines, bodytext |-> c.bodytext,
               text |-> c.text] :
                d \in Domains(u), r \in {<< >>, Raw1}, c \in Contents } :
            u \in Urls }

NoItem == [url |-> "", domain |-> "", raw |-> << >>,
           text_lines |-> << >>, bodytext |-> << >>, text |-> << >>]

\* process_item lines 50-56: raw_checksum, << >> for None
RawChecksum(item) == IF item.raw # << >> THEN Sha1(item.raw) ELSE << >>

\* process_item lines 58-83: the text to store
Resolve(item) ==
    LET lines == IF item.text_lines # << >> THEN item.text_lines ELSE item.bodytext
        t1 == IF lines # << >> THEN Strip(JoinLines(lines)) ELSE << >>
        t2 == IF t1 # << >> THEN t1 ELSE Strip(item.text)
    IN  IF t2 # << >> THEN t2
        ELSE IF item.raw # << >> THEN Extract(item.raw)
        ELSE << >>

\* process_item line 86 (TooShort_le: the comparison slipped to <=)
TooShort_le(text) == Len(Strip(text)) <= MIN_TEXT_LEN

TooShort(text) == Len(Strip(text)) < MIN_TEXT_LEN

\* process_item line 100
Checksum(text) == Sha1(text)

\* _seen, lines 29-31
_seen(url) == url \in DOMAIN seen

\* _mark_seen, lines 33-38: INSERT OR REPLACE INTO seen, then commit
\* (_mark_seen_lost: the row is never written)
_mark_seen_lost(s, url, checksum) == s

_mark_seen(s, url, checksum) ==
    [u \in DOMAIN s \cup {url} |-> IF u = url THEN checksum ELSE s[u]]

\* process_item line 88 and lines 105, 151: the checksum recorded with the url
SeenChecksum(item, fallback) ==
    IF RawChecksum(item) # << >> THEN RawChecksum(item) ELSE fallback

\* process_item lines 137-141: one line appended to <domain>.jsonl
Dom(item) == IF item.domain # "" THEN item.domain ELSE Tld(item.url)

AppendLine(log, item) ==
    LET d == Dom(item)
        line == [url |-> item.url, checksum |-> Checksum(Resolve(item))]
    IN  [x \in DOMAIN log \cup {d} |->
            IF x = d
            THEN (IF d \in DOMAIN log THEN log[d] ELSE << >>) \o <<line>>
            ELSE log[x]]

\* process_item lines 143-148: INSERT OR REPLACE INTO text_index, then commit
IndexPut(ti, item) ==
    LET ck == Checksum(Resolve(item))
    IN  [c \in DOMAIN ti \cup {ck} |-> IF c = ck THEN item.url ELSE ti[c]]

\* the named outcome of process_item for an item, lines 44-48, 86, 103-106, 152
\* slips: the length check made before the url lookup; the content lookup left out
Outcome_contentFirst(item) ==
    IF item.url = "" THEN "no-url"
    ELSE IF TooShort(Resolve(item)) THEN "short"
    ELSE IF _seen(item.url) THEN "dup-url"
    ELSE IF Checksum(Resolve(item)) \in DOMAIN text_index THEN "dup-content"
    ELSE "accepted"

Outcome_noContentLookup(item) ==
    IF item.url = "" THEN "no-url"
    ELSE IF _seen(item.url) THEN "dup-url"
    ELSE IF TooShort(Resolve(item)) THEN "short"
    ELSE "accepted"

Outcome(item) ==
    IF item.url = "" THEN "no-url"
    ELSE IF _seen(item.url) THEN "dup-url"
    ELSE IF TooShort(Resolve(item)) THEN "short"
    ELSE IF Checksum(Resolve(item)) \in DOMAIN text_index THEN "dup-content"
    ELSE "accepted"

EmptyDb == [docs |-> << >>, chunks |-> << >>, seq |-> 0]

\* no function has been called
CallIdle ==
    /\ fn = "none"
    /\ arg = << >>
    /\ res = << >>

\* the variables of the other component, at rest
StoreIdle ==
    /\ impl = "none"
    /\ db = EmptyDb
    /\ clock = 0
    /\ phase = "none"
    /\ input = << >>
    /\ base = EmptyDb
    /\ after = [db |-> EmptyDb, err |-> FALSE]
    /\ err = FALSE
    /\ nruns = 0

GateInit ==
    /\ StoreIdle
    /\ CallIdle
    /\ seen = << >>
    /\ text_index = << >>
    /\ jsonl = << >>
    /\ last = [item |-> NoItem, outcome |-> "none"]
    /\ ended = {}
    /\ accepted = {}
    /\ pc = "idle"
    /\ cur = NoItem
    /\ crashes = 0

\* the history of completed calls (not program state)
Record(item, outcome) ==
    /\ last' = [item |-> item, outcome |-> outcome]
    /\ ended' = IF outcome \in {"short", "dup-content", "accepted"}
                THEN ended \cup {item.url} ELSE ended
    /\ accepted' = IF outcome = "accepted"
                   THEN accepted \cup {[url |-> item.url, text |-> Resolve(item)]}
                   ELSE accepted

\* DedupeAndStorePipeline.process_item, lines 40-152, as one uninterrupted call
ProcessItem(item) ==
    /\ pc = "idle"
    /\ UNCHANGED storeVars
    /\ UNCHANGED callVars
    /\ Record(item, Outcome(item))
    /\ UNCHANGED <<pc, cur, crashes>>
    /\ CASE Outcome(item) \in {"no-url", "dup-url"} ->
              UNCHANGED <<seen, text_index, jsonl>>
         [] Outcome(item) = "short" ->
              /\ seen' = _mark_seen(seen, item.url, SeenChecksum(item, << >>))
              /\ UNCHANGED <<text_index, jsonl>>
         [] Outcome(item) = "dup-content" ->
              /\ seen' = _mark_seen(seen, item.url,
                                    SeenChecksum(item, Checksum(Resolve(item))))
              /\ UNCHANGED <<text_index, jsonl>>
         [] Outcome(item) = "accepted" ->
              /\ jsonl' = AppendLine(jsonl, item)
              /\ text_index' = IndexPut(text_index, item)
              /\ seen' = _mark_seen(seen, item.url,
                                    SeenChecksum(item, Checksum(Resolve(item))))

GateNext == \E item \in Items : ProcessItem(item)

SpecGate == GateInit /\ [][GateNext]_vars

-----------------------------------------------------------------------------
(* process_item step by step, with a process crash between its durable writes.
   The rejecting paths make at most one durable write (_mark_seen and its
   commit); the accepting path makes three: the line appended to the jsonl
   file (lines 140-141), the text_index row and its commit (lines 144-148),
   the seen row and its commit (line 151). *)

\* lines 40-141: everything up to and including the append to the jsonl file
BeginItem(item) ==
    /\ pc = "idle"
    /\ UNCHANGED storeVars
    /\ UNCHANGED callVars
    /\ UNCHANGED crashes
    /\ CASE Outcome(item) \in {"no-url", "dup-url"} ->
              /\ Record(item, Outcome(item))
              /\ UNCHANGED <<seen, text_index, jsonl, pc, cur>>
         [] Outcome(item) = "short" ->
              /\ Record(item, Outcome(item))
              /\ seen' = _mark_seen(seen, item.url, SeenChecksum(item, << >>))
              /\ UNCHANGED <<text_index, jsonl, pc, cur>>
         [] Outcome(item) = "dup-content" ->
              /\ Record(item, Outcome(item))
              /\ seen' = _mark_seen(seen, item.url,
                                    SeenChecksum(item, Checksum(Resolve(item))))
              /\ UNCHANGED <<text_index, jsonl, pc, cur>>
         [] Outcome(item) = "accepted" ->
              /\ jsonl' = AppendLine(jsonl, item)
              /\ pc' = "logged"
              /\ cur' = item
              /\ UNCHANGED <<seen, text_index, last, ended, accepted>>

\* lines 143-148
WriteIndex ==
    /\ pc = "logged"
    /\ UNCHANGED storeVars
    /\ UNCHANGED callVars
    /\ text_index' = IndexPut(text_index, cur)
    /\ pc' = "indexed"
    /\ UNCHANGED <<seen, jsonl, last, ended, accepted, cur, crashes>>

\* lines 150-152
MarkSeen ==
    /\ pc = "indexed"
    /\ UNCHANGED storeVars
    /\ UNCHANGED callVars
    /\ seen' = _mark_seen(seen, cur.url, SeenChecksum(cur, Checksum(Resolve(cur))))
    /\ Record(cur, "accepted")
    /\ pc' = "idle"
    /\ cur' = NoItem
    /\ UNCHANGED <<text_index, jsonl, crashes>>

\* the process dies inside process_item and the crawl is started again:
\* the files and the committed rows stay, the call in progress is forgotten
Crash ==
    /\ pc # "idle"
    /\ UNCHANGED storeVars
    /\ UNCHANGED callVars
    /\ crashes < MaxCrashes
    /\ crashes' = crashes + 1
    /\ pc' = "idle"
    /\ cur' = NoItem
    /\ last' = [item |-> cur, outcome |-> "crashed"]
    /\ UNCHANGED <<seen, text_index, jsonl, ended, accepted>>

\* the items submitted in the behaviours with crashes
CrashItems ==
    { i \in Items : i.raw = << >> /\ i.domain = "" /\ i.bodytext = << >>
                    /\ i.text \in {T10, T20} }

GateCrashNext ==
    \/ \E item \in CrashItems : BeginItem(item)
    \/ WriteIndex
    \/ MarkSeen
    \/ Crash

SpecGateCrash == GateInit /\ [][GateCrashNext]_vars

-----------------------------------------------------------------------------
(* Claims about the dedup-and-store gate *)

store == <<seen, text_index, jsonl>>

\* the positions <<domain, i>> of all lines of all per-domain record logs
LogLines(log) == UNION { { <<d, i>> : i \in 1..Len(log[d]) } : d \in DOMAIN log }

LinesWith(log, checksum) ==
    { p \in LogLines(log) : log[p[1]][p[2]].checksum = checksum }

TrimmedLen(item) == Len(Strip(Resolve(item)))

\* C1: once a submission with a non-empty url u has ended as short,
\* dup-content or accepted, every later submission with url u, whatever its
\* text and whatever was submitted in between, is rejected as dup-url.
C1_SeenUrlIsDupUrl ==
    [][ last'.item.url \in ended => last'.outcome = "dup-url" ]_vars

\* C1 happens: a text shorter than 20 characters, submitted again under a url
\* that already ended, is answered dup-url and not short.
C1_Witness ==
    /\ last.outcome = "dup-url"
    /\ last.item.url \in ended
    /\ TrimmedLen(last.item) < MIN_TEXT_LEN
    /\ seen[last.item.url] = << >>

\* C2 as stated: of two submissions with different urls and the same resolved
\* text of at least 20 characters, the first of them accepted, the later one is
\* rejected as dup-content; the record logs hold exactly one record with that
\* checksum and text_index names the url of the first.
C2_Original ==
    [][ \A a \in accepted :
          /\ (/\ last'.item.url # ""
              /\ last'.item.url # a.url
              /\ Resolve(last'.item) = a.text)
             => last'.outcome = "dup-content"
          /\ Cardinality(LinesWith(jsonl', Sha1(a.text))) = 1
          /\ text_index'[Sha1(a.text)] = a.url ]_vars

\* C2 amended: the later one is rejected as dup-content when its url has not
\* been seen before (a url already seen is rejected as dup-url); in either case
\* nothing is stored for it, the record logs hold exactly one record with that
\* checksum, and text_index names the url of the first accepted submission.
C2_DupContent ==
    [][ \A a \in accepted :
          /\ (/\ last'.item.url # ""
              /\ last'.item.url # a.url
              /\ Resolve(last'.item) = a.text)
             => /\ last'.outcome =
                     (IF last'.item.url \in DOMAIN seen THEN "dup-url"
                      ELSE "dup-content")
                /\ jsonl' = jsonl
                /\ text_index' = text_index
          /\ Cardinality(LinesWith(jsonl', Sha1(a.text))) = 1
          /\ \A p \in LinesWith(jsonl', Sha1(a.text)) :
                jsonl'[p[1]][p[2]].url = a.url
          /\ text_index'[Sha1(a.text)] = a.url ]_vars

\* C2 happens: a second url with the text of an accepted submission was
\* rejected as dup-content.
C2_Witness ==
    /\ last.outcome = "dup-content"
    /\ \E a \in accepted :
          /\ a.url # last.item.url
          /\ a.text = Resolve(last.item)
          /\ text_index[Sha1(a.text)] = a.url
          /\ Cardinality(LinesWith(jsonl, Sha1(a.text))) = 1

\* C3: a call rejected as no-url (url missing or empty) or as dup-url (url in
\* the seen table) changes neither seen, nor text_index, nor any record log.
C3_RejectedUrlNoEffect ==
    [][ (last'.item.url = "" \/ last'.item.url \in DOMAIN seen)
          => /\ last'.outcome = (IF last'.item.url = "" THEN "no-url" ELSE "dup-url")
             /\ UNCHANGED store ]_vars

\* C3 happens: a seen url came back with a long text that is not indexed yet
\* and with other raw bytes than the ones recorded, and was rejected as dup-url.
C3_Witness ==
    /\ last.outcome = "dup-url"
    /\ TrimmedLen(last.item) >= MIN_TEXT_LEN
    /\ Checksum(Resolve(last.item)) \notin DOMAIN text_index
    /\ last.item.raw # << >>
    /\ seen[last.item.url] # Sha1(last.item.raw)

\* C4: for a non-empty unseen url the outcome is short exactly when the
\* resolved text, trimmed, has fewer than 20 characters; the url is then put in
\* seen with the raw-bytes checksum (the empty string without raw bytes) and
\* neither text_index nor a record log is written.
C4_ShortIffUnder20 ==
    [][ (last'.item.url # "" /\ last'.item.url \notin DOMAIN seen)
          => /\ last'.outcome = "short" <=> TrimmedLen(last'.item) < 20
             /\ last'.outcome = "short" =>
                  /\ DOMAIN seen' = DOMAIN seen \cup {last'.item.url}
                  /\ \A u \in DOMAIN seen : seen'[u] = seen[u]
                  /\ seen'[last'.item.url] =
                        (IF last'.item.raw # << >> THEN Sha1(last'.item.raw)
                         ELSE << >>)
                  /\ UNCHANGED <<text_index, jsonl>> ]_vars

\* C4 happens: a text of 19 characters after trimming came with raw bytes and
\* was rejected as short, the url recorded with the checksum of the raw bytes.
C4_Witness ==
    /\ last.outcome = "short"
    /\ TrimmedLen(last.item) = MIN_TEXT_LEN - 1
    /\ last.item.raw # << >>
    /\ seen[last.item.url] = Sha1(last.item.raw)

\* C4, the boundary: a trimmed text of exactly 20 characters was accepted.
C4_Boundary ==
    /\ last.outcome = "accepted"
    /\ TrimmedLen(last.item) = MIN_TEXT_LEN

\* C5: the side effects of an accepted item are all there or none is, also
\* after a crash inside process_item, so that submitting the item again never
\* appends a second line for the same url and checksum.
C5_AtomicPerItem ==
    pc = "idle" =>
        /\ \A p \in LogLines(jsonl) :
              LET line == jsonl[p[1]][p[2]]
              IN  /\ line.checksum \in DOMAIN text_index
                  /\ line.url \in DOMAIN seen
        /\ \A p, q \in LogLines(jsonl) :
              jsonl[p[1]][p[2]] = jsonl[q[1]][q[2]] => p = q

\* C5, the second half alone: no url and checksum is logged twice.
C5_NoSecondLine ==
    \A p, q \in LogLines(jsonl) : jsonl[p[1]][p[2]] = jsonl[q[1]][q[2]] => p = q

-----------------------------------------------------------------------------
(* The store: PostgreSQL tables documents (id primary key, url unique) and
   chunks (unique (doc_id, chunk_index), doc_id references documents.id), and
   the sequence behind documents.id.  A transaction that ends without commit
   (an exception that ends the script, a crash, conn.rollback()) leaves the
   tables as committed; the sequence is not transactional: values drawn by
   nextval, also by an INSERT that ends in its ON CONFLICT branch or is rolled
   back, are not given back. *)

\* SQL NULL / Python None in a column or a field that holds a string (strings
\* are sequences of characters, and "NULL" is no character)
Null == <<"NULL">>

\* a record without the key "id"
NoId == -1

\* a record without the key "fetched_at"
NoTime == -1

\* the commit interval of ingest_jsonl_to_db.main (line 239: 500), scaled down
\* so that a file of two or three records crosses it
DocCommitEvery == 2

\* hashlib.md5(x).hexdigest()
Md5(x) == <<"md5", x>>

\* v or ""
OrEmpty(v) == IF v = Null THEN << >> ELSE v

\* json.dumps(v, ensure_ascii=False)
JsonDumps(v) == <<"json", v>>

IdTaken(docs, id) == \E u \in DOMAIN docs : docs[u].id = id

MaxId(docs) ==
    IF DOMAIN docs = {} THEN 0
    ELSE CHOOSE m \in {docs[u].id : u \in DOMAIN docs} :
            \A u \in DOMAIN docs : docs[u].id <= m

\* the element of a set of one element; The({F(x) : x \in {e}}) is F(e) with e
\* evaluated once
The(S) == CHOOSE x \in S : TRUE

Min(a, b) == IF a < b THEN a ELSE b

Max(a, b) == IF a > b THEN a ELSE b

\* f with key k set to v
Put(f, k, v) == [x \in DOMAIN f \cup {k} |-> IF x = k THEN v ELSE f[x]]

\* a line of an input file that json.loads refuses
NotJson == [raw |-> <<"{", "x">>]

IsJson(line) == ~("raw" \in DOMAIN line)

\* The state of one run of a script: the tables as the open transaction sees
\* them (docs, chunks), as last committed (com), the sequence, the counters
\* and url2id of main, and how far the run may go: each statement sent to the
\* server (an upsert, a batch, a commit, a setval) uses one unit of fuel, and
\* the process dies when it needs one and has none.
RunState(d, mortal, fuel) ==
    [docs |-> d.docs, chunks |-> d.chunks, seq |-> d.seq,
     com |-> [docs |-> d.docs, chunks |-> d.chunks],
     cnt |-> 0, url2id |-> << >>, ret |-> NoId, bad |-> 0,
     err |-> FALSE, crashed |-> FALSE, mortal |-> mortal, fuel |-> fuel]

Halted(st) == st.err \/ st.crashed

\* one statement: skipped when the run is over, fatal for a mortal run
\* without fuel
Stmt(st, next) ==
    IF Halted(st) THEN st
    ELSE IF st.mortal /\ st.fuel = 0 THEN [st EXCEPT !.crashed = TRUE]
    ELSE [next EXCEPT !.fuel = IF st.mortal THEN st.fuel - 1 ELSE st.fuel]

\* conn.commit()
Commit(st) ==
    Stmt(st, [st EXCEPT !.com = [docs |-> st.docs, chunks |-> st.chunks]])

\* conn.rollback()
Rollback(st) ==
    Stmt(st, [st EXCEPT !.docs = st.com.docs, !.chunks = st.com.chunks])

\* what is left when the run is over: the committed tables and the sequence
Durable(st) == [docs |-> st.com.docs, chunks |-> st.com.chunks, seq |-> st.seq]

-----------------------------------------------------------------------------
(* The chunking engine: split_text of data_process/ingest_jsonl_to_db.py and
   of data_process/convert_to_documents_and_chunks.py *)

\* the single characters of SPLIT_PAT: the ideographic full stop, the
\* fullwidth semicolon and exclamation mark, ? and the fullwidth question mark
Punct == {"U+3002", "U+FF1B", "U+FF01", "?", "U+FF1F"}

\* position i of t lies in a run of two or more newlines (\n{2,})
InNewlines(t, i) ==
    /\ t[i] = "\n"
    /\ \/ (i > 1 /\ t[i - 1] = "\n")
       \/ (i < Len(t) /\ t[i + 1] = "\n")

\* position i of t lies in a match of SPLIT_PAT
IsSep(t, i) == t[i] \in Punct \/ InNewlines(t, i)

\* the last position of the piece of SPLIT_PAT.split(t) that starts at i
PieceEnd(t, i) ==
    CHOOSE j \in i..Len(t) :
        /\ j = Len(t) \/ IsSep(t, j + 1)
        /\ \A k \in i..j : ~IsSep(t, k)

\* [p.strip() for p in SPLIT_PAT.split(text) if p.strip()], from position i
RECURSIVE PartsFrom(_, _)
PartsFrom(t, i) ==
    IF i > Len(t) THEN << >>
    ELSE IF IsSep(t, i) THEN PartsFrom(t, i + 1)
    ELSE The({ (IF Strip(SubSeq(t, i, j)) # << >>
                THEN <<Strip(SubSeq(t, i, j))>> ELSE << >>)
               \o PartsFrom(t, j + 1)
             : j \in {PieceEnd(t, i)} })

Parts(text) == PartsFrom(text, 1)

\* (a + " " + b).strip()
JoinSp(a, b) == Strip(a \o <<" ">> \o b)

\* split_text lines 66-72: the packing loop over parts, with the chunks
\* flushed so far and the buffer
\* (Pack_noFlush: the buffer that is full is not appended to the chunks;
\* Pack_limit: the buffer is filled up to int(max_chars * 1.5))
RECURSIVE Pack_noFlush(_, _, _, _)
Pack_noFlush(parts, chunks, buf, max_chars) ==
    IF parts = << >>
    THEN (IF buf # << >> THEN Append(chunks, buf) ELSE chunks)
    ELSE The({ IF Len(buf) + Len(p) + 1 <= max_chars
               THEN The({ Pack_noFlush(Tail(parts), chunks, b, max_chars)
                        : b \in {IF buf # << >> THEN JoinSp(buf, p) ELSE p} })
               ELSE Pack_noFlush(Tail(parts), chunks, p, max_chars)
             : p \in {Head(parts)} })

RECURSIVE Pack_limit(_, _, _, _)
Pack_limit(parts, chunks, buf, max_chars) ==
    IF parts = << >>
    THEN (IF buf # << >> THEN Append(chunks, buf) ELSE chunks)
    ELSE The({ IF Len(buf) + Len(p) + 1 <= (3 * max_chars) \div 2
               THEN The({ Pack_limit(Tail(parts), chunks, b, max_chars)
                        : b \in {IF buf # << >> THEN JoinSp(buf, p) ELSE p} })
               ELSE The({ Pack_limit(Tail(parts), c, p, max_chars)
                        : c \in {IF buf # << >> THEN Append(chunks, buf)
                                 ELSE chunks} })
             : p \in {Head(parts)} })

RECURSIVE Pack(_, _, _, _)
Pack(parts, chunks, buf, max_chars) ==
    IF parts = << >>
    THEN (IF buf # << >> THEN Append(chunks, buf) ELSE chunks)
    ELSE The({ IF Len(buf) + Len(p) + 1 <= max_chars
               THEN The({ Pack(Tail(parts), chunks, b, max_chars)
                        : b \in {IF buf # << >> THEN JoinSp(buf, p) ELSE p} })
               ELSE The({ Pack(Tail(parts), c, p, max_chars)
                        : c \in {IF buf # << >> THEN Append(chunks, buf)
                                 ELSE chunks} })
             : p \in {Head(parts)} })

\* int(max_chars * 1.5), for a max_chars that is an int
Limit(max_chars) == (3 * max_chars) \div 2

\* split_text lines 74-79: the merge of chunks that are too short
\* (MergeShort_off: every chunk is kept as it is)
RECURSIVE MergeShort_off(_, _, _, _)
MergeShort_off(chunks, merged, max_chars, min_chars) ==
    IF chunks = << >> THEN merged
    ELSE The({ MergeShort_off(Tail(chunks), m, max_chars, min_chars)
             : m \in {Append(merged, Head(chunks))} })

RECURSIVE MergeShort(_, _, _, _)
MergeShort(chunks, merged, max_chars, min_chars) ==
    IF chunks = << >> THEN merged
    ELSE The({ The({ MergeShort(Tail(chunks), m, max_chars, min_chars)
                   : m \in {IF /\ merged # << >>
                               /\ Len(c) < min_chars
                               /\ Len(merged[Len(merged)]) + Len(c) + 1
                                     <= Limit(max_chars)
                            THEN [merged EXCEPT ![Len(merged)] =
                                     JoinSp(merged[Len(merged)], c)]
                            ELSE Append(merged, c)} })
             : c \in {Head(chunks)} })

\* split_text(text, max_chars, min_chars), ingest_jsonl_to_db.py lines 62-80
split_text(text, max_chars, min_chars) ==
    IF text = << >> THEN << >>
    ELSE The({ MergeShort(chunks, << >>, max_chars, min_chars)
             : chunks \in {Pack(Parts(text), << >>, << >>, max_chars)} })

MAX_CHARS == 1000

MIN_CHARS == 600

\* split_text(text), convert_to_documents_and_chunks.py lines 54-74: the same
\* statements with the module's MAX_CHARS and MIN_CHARS
convert_split_text(text) == split_text(text, MAX_CHARS, MIN_CHARS)

-----------------------------------------------------------------------------
(* The offset recovery of convert (convert_to_documents_and_chunks.py lines
   132-149) and of auto_chunk_all (ingest_jsonl_to_db.py lines 194-204) *)

\* text.find(piece, from): the least index (from 0) at or after from where
\* piece occurs in text, -1 when there is none
Find(text, piece, from) ==
    LET at == {i \in from..(Len(text) - Len(piece)) :
                  SubSeq(text, i + 1, i + Len(piece)) = piece}
    IN  IF at = {} THEN -1
        ELSE CHOOSE i \in at : \A j \in at : i <= j

\* start = text.find(piece, cursor); if start < 0: start = text.find(piece)
\* (StartOf_noFallback: without the second search)
StartOf_noFallback(text, piece, cursor) == Find(text, piece, cursor)

StartOf(text, piece, cursor) ==
    IF Find(text, piece, cursor) < 0 THEN Find(text, piece, 0)
    ELSE Find(text, piece, cursor)

\* the loop over enumerate(pieces), from chunk index idx and cursor
RECURSIVE Offsets(_, _, _, _)
Offsets(text, pieces, idx, cursor) ==
    IF pieces = << >> THEN << >>
    ELSE The({ << [chunk_index |-> idx, content |-> Head(pieces),
                   char_start |-> start,
                   char_end |-> start + Len(Head(pieces))] >>
               \o Offsets(text, Tail(pieces), idx + 1,
                          Max(cursor, start + Len(Head(pieces))))
             : start \in {StartOf(text, Head(pieces), cursor)} })

\* convert lines 130-149: the chunk records of one document
convert_chunks(text) == Offsets(text, convert_split_text(text), 0, 0)

\* auto_chunk_all lines 194-204: the chunk rows of one document
auto_chunks(text, max_chars) ==
    Offsets(text, split_text(text, max_chars, max_chars \div 2), 0, 0)

-----------------------------------------------------------------------------
(* data_process/ingest_jsonl_to_db.py *)

\* ensure_url, lines 38-44
ensure_url(url, title, text) ==
    IF Strip(url) # << >> THEN Strip(url)
    ELSE <<"missing://", Md5(title \o <<"|">> \o text)>>

\* the value above which to_iso reads a timestamp as milliseconds (line 50:
\* 1e12), scaled down to the integers of the model checker
MsThreshold == 1000000000

\* to_iso, lines 46-54, for a number of seconds or milliseconds
\* (<< >>: None; <<"iso", n>>: the ISO-8601 text of second n)
to_iso(val) ==
    IF val = NoTime THEN << >>
    ELSE <<"iso", IF val > MsThreshold THEN val \div 1000 ELSE val>>

\* est_tokens_by_chars, lines 56-58: max(1, ceil(len / 4))
est_tokens_by_chars(c) == IF Len(c) <= 4 THEN 1 ELSE (Len(c) + 3) \div 4

\* upsert_document lines 119-127: the values bound to the statement
DocValues(rec) ==
    [domain         |-> rec.domain,
     fetched_at_iso |-> IF rec.fetched_at_iso # << >> THEN rec.fetched_at_iso
                        ELSE to_iso(rec.fetched_at),
     title          |-> rec.title,
     lang           |-> rec.lang,
     text           |-> rec.text,
     extra_json     |-> IF rec.extra_json # Null THEN JsonDumps(rec.extra_json)
                        ELSE Null]

\* DOCS_SQL_WITH_ID / DOCS_SQL_AUTO_ID, lines 88-95 and 103-110: ON CONFLICT
\* (url) DO UPDATE
UpdateDoc(row, v, now) ==
    [id |-> row.id, domain |-> v.domain, fetched_at_iso |-> v.fetched_at_iso,
     title |-> v.title, lang |-> v.lang, text |-> v.text,
     extra_json |-> IF v.extra_json # Null THEN v.extra_json ELSE row.extra_json,
     updated_at |-> now]

\* lines 85-87 and 100-102: the row inserted
InsertDoc(id, v, now) ==
    [id |-> id, domain |-> v.domain, fetched_at_iso |-> v.fetched_at_iso,
     title |-> v.title, lang |-> v.lang, text |-> v.text,
     extra_json |-> v.extra_json, updated_at |-> now]

\* (upsert_document_insertOnly: a plain INSERT, which raises when the url
\* exists; upsert_document_serial: the id of the record is not used)
upsert_document_insertOnly(st, rec, now) ==
    LET url == ensure_url(rec.url, OrEmpty(rec.title), rec.text)
        v == DocValues(rec)
        seq1 == IF rec.id # NoId THEN st.seq ELSE st.seq + 1
        id == IF rec.id # NoId THEN rec.id ELSE seq1
    IN  IF url \in DOMAIN st.docs \/ IdTaken(st.docs, id)
        THEN [st EXCEPT !.seq = seq1, !.err = TRUE]
        ELSE [st EXCEPT !.seq = seq1,
                        !.docs = Put(st.docs, url, InsertDoc(id, v, now)),
                        !.ret = id]

upsert_document_serial(st, rec, now) ==
    LET url == ensure_url(rec.url, OrEmpty(rec.title), rec.text)
        v == DocValues(rec)
        seq1 == st.seq + 1
    IN  IF url \in DOMAIN st.docs
        THEN [st EXCEPT !.seq = seq1,
                        !.docs = Put(st.docs, url, UpdateDoc(st.docs[url], v, now)),
                        !.ret = st.docs[url].id]
        ELSE IF IdTaken(st.docs, seq1)
        THEN [st EXCEPT !.seq = seq1, !.err = TRUE]
        ELSE [st EXCEPT !.seq = seq1,
                        !.docs = Put(st.docs, url, InsertDoc(seq1, v, now)),
                        !.ret = seq1]

\* upsert_document, lines 114-137.  With an id in the record the row is
\* inserted under it; without, under nextval of the sequence, which is drawn
\* before the url is looked up.  A url that exists takes the DO UPDATE branch
\* and keeps its id; a new url whose id exists violates the primary key.
upsert_document(st, rec, now) ==
    LET url == ensure_url(rec.url, OrEmpty(rec.title), rec.text)
        v == DocValues(rec)
        seq1 == IF rec.id # NoId THEN st.seq ELSE st.seq + 1
        id == IF rec.id # NoId THEN rec.id ELSE seq1
    IN  IF url \in DOMAIN st.docs
        THEN [st EXCEPT !.seq = seq1,
                        !.docs = Put(st.docs, url, UpdateDoc(st.docs[url], v, now)),
                        !.ret = st.docs[url].id]
        ELSE IF IdTaken(st.docs, id)
        THEN [st EXCEPT !.seq = seq1, !.err = TRUE]
        ELSE [st EXCEPT !.seq = seq1,
                        !.docs = Put(st.docs, url, InsertDoc(id, v, now)),
                        !.ret = id]

\* CHUNK_UPSERT, lines 140-151, for one row: the document must exist (foreign
\* key); ON CONFLICT (doc_id, chunk_index) DO UPDATE
ChunkUpsert(st, row, now) ==
    IF st.err THEN st
    ELSE IF ~IdTaken(st.docs, row.doc_id) THEN [st EXCEPT !.err = TRUE]
    ELSE [st EXCEPT !.chunks = Put(st.chunks, <<row.doc_id, row.chunk_index>>,
            [content |-> row.content, char_start |-> row.char_start,
             char_end |-> row.char_end, token_estimate |-> row.token_estimate,
             content_md5 |-> row.content_md5, updated_at |-> now])]

\* bulk_upsert_chunks, lines 153-156: execute_batch sends the statements of
\* the batch in order, in the open transaction
RECURSIVE bulk_upsert_chunks(_, _, _)
bulk_upsert_chunks(st, rows, now) ==
    IF rows = << >> THEN st
    ELSE The({ bulk_upsert_chunks(s1, Tail(rows), now)
             : s1 \in {ChunkUpsert(st, Head(rows), now)} })

\* ingest_chunks_from_file lines 167-178: the row built from one line, << >>
\* when the line is skipped.  A document_id that is a str starting with
\* "http" is looked up in url2id; 0, None and an unknown url are skipped.
ChunkRowOf(obj, url2id) ==
    LET doc_id == IF obj.ref.kind = "url"
                  THEN (IF obj.ref.url \in DOMAIN url2id THEN url2id[obj.ref.url]
                        ELSE 0)
                  ELSE obj.ref.id
    IN  IF doc_id = 0 THEN << >>
        ELSE << [doc_id |-> doc_id, chunk_index |-> obj.chunk_index,
                 content |-> obj.content, char_start |-> obj.char_start,
                 char_end |-> obj.char_end,
                 token_estimate |-> est_tokens_by_chars(obj.content),
                 content_md5 |-> Md5(obj.content)] >>

RECURSIVE ChunkBatch(_, _)
ChunkBatch(file, url2id) ==
    IF file = << >> THEN << >>
    ELSE ChunkRowOf(Head(file), url2id) \o ChunkBatch(Tail(file), url2id)

\* ingest_chunks_from_file, lines 158-183, for a file of fewer than 2000 lines:
\* one batch, sent after the last line; json.loads (line 167) is not guarded,
\* and a line it refuses ends the function, and main, by its exception
\* before the batch is sent
ingest_chunks_from_file(st, file, now) ==
    IF Halted(st) THEN st
    ELSE IF \E i \in DOMAIN file : ~IsJson(file[i])
    THEN [st EXCEPT !.err = TRUE]
    ELSE The({ IF batch = << >> THEN st
               ELSE Stmt(st, bulk_upsert_chunks(st, batch, now))
             : batch \in {ChunkBatch(file, st.url2id)} })

\* main lines 228-240: the loop over the documents file; a line that
\* json.loads refuses is passed over (lines 231-234)
\* lines 235-239, after upsert_document has returned
DocDone(st, rec) ==
    IF Halted(st) THEN st
    ELSE IF (st.cnt + 1) % DocCommitEvery = 0
    THEN Commit([st EXCEPT !.cnt = st.cnt + 1,
                           !.url2id = IF rec.url # << >>
                                      THEN Put(st.url2id, rec.url, st.ret)
                                      ELSE st.url2id])
    ELSE [st EXCEPT !.cnt = st.cnt + 1,
                    !.url2id = IF rec.url # << >>
                               THEN Put(st.url2id, rec.url, st.ret)
                               ELSE st.url2id]

RECURSIVE DocLoop(_, _, _)
DocLoop(st, file, now) ==
    IF file = << >> \/ Halted(st) THEN st
    ELSE IF ~IsJson(Head(file)) THEN DocLoop(st, Tail(file), now)
    ELSE The({ The({ DocLoop(s2, Tail(file), now)
                   : s2 \in {DocDone(s1, Head(file))} })
             : s1 \in {Stmt(st, upsert_document(st, Head(file), now))} })

\* main lines 244-246: setval(sequence, COALESCE(MAX(id), 0)); PostgreSQL
\* refuses 0, which is below the sequence's minimum
SetVal(st) ==
    IF MaxId(st.docs) < 1 THEN [st EXCEPT !.err = TRUE]
    ELSE [st EXCEPT !.seq = MaxId(st.docs)]

\* --auto-chunk-size (line 216: 1000), scaled down to texts of two or three
\* characters
AutoChunkSize == 2

\* the value of args.chunks when --chunks is not given (line 215: None)
NoChunksFile == << [chunks |-> "None"] >>

\* auto_chunk_all lines 192-205: the rows of the batch for the rows ids of
\* documents (SELECT id, text FROM documents WHERE text IS NOT NULL); a row
\* whose text is empty is passed over
RECURSIVE AutoChunkBatch(_, _, _)
AutoChunkBatch(docs, ids, max_chars) ==
    IF ids = {} THEN << >>
    ELSE LET doc_id == CHOOSE i \in ids : \A j \in ids : i <= j
             text == (CHOOSE u \in DOMAIN docs : docs[u].id = doc_id)
             pieces == IF docs[text].text = Null THEN << >>
                       ELSE auto_chunks(docs[text].text, max_chars)
         IN  [i \in DOMAIN pieces |->
                 [doc_id |-> doc_id, chunk_index |-> pieces[i].chunk_index,
                  content |-> pieces[i].content,
                  char_start |-> pieces[i].char_start,
                  char_end |-> pieces[i].char_end,
                  token_estimate |-> est_tokens_by_chars(pieces[i].content),
                  content_md5 |-> Md5(pieces[i].content)]]
             \o AutoChunkBatch(docs, ids \ {doc_id}, max_chars)

\* auto_chunk_all, lines 185-209, for fewer than 2000 chunks: one batch, sent
\* after the last document
auto_chunk_all(st, max_chars, now) ==
    IF Halted(st) THEN st
    ELSE The({ IF batch = << >> THEN st
               ELSE Stmt(st, bulk_upsert_chunks(st, batch, now))
             : batch \in {AutoChunkBatch(st.docs,
                              {st.docs[u].id : u \in DOMAIN st.docs},
                              max_chars)} })

\* main, lines 212-263, run with --docs and with or without --chunks
DbMain(d, files, now, mortal, fuel) ==
    The({ The({ The({ The({ The({ The({ The({
        Commit(s6)
        : s6 \in {IF files.chunks = NoChunksFile
                  THEN auto_chunk_all(s5, AutoChunkSize, now)
                  ELSE ingest_chunks_from_file(s5, files.chunks, now)} })
        : s5 \in {Commit(s4)} })
        : s4 \in {Stmt(s3, SetVal(s3))} })
        : s3 \in {Commit(s2)} })
        : s2 \in {DocLoop(s1, files.docs, now)} })
        : s1 \in {RunState(d0, mortal, fuel)} })
        : d0 \in {d} })

-----------------------------------------------------------------------------
(* ingest_jsonl_to_polardb.py *)

\* --chunk-size and --overlap (lines 183-184: 1000 and 100), scaled down to
\* texts of two or three characters
ChunkSize == 2

Overlap == 1

\* the commit interval of ingest_jsonl_to_polardb.main (line 229: 100), scaled
\* down like DocCommitEvery
PolarCommitEvery == 2

\* make_chunks lines 47-56: the loop from position start
\* (ChunksFrom_noOverlap: the next chunk starts where the last one ended)
RECURSIVE ChunksFrom_noOverlap(_, _, _, _)
ChunksFrom_noOverlap(text, start, size, overlap) ==
    LET n == Len(text)
        end == Min(start + size, n)
        chunk == SubSeq(text, start + 1, end)
    IN  IF start >= n THEN << >>
        ELSE << [char_start |-> start, char_end |-> end, content |-> chunk,
                 token_estimate |-> est_tokens_by_chars(chunk),
                 content_md5 |-> Md5(chunk)] >>
             \o (IF end = n THEN << >>
                 ELSE ChunksFrom_noOverlap(text, end, size, overlap))

RECURSIVE ChunksFrom(_, _, _, _)
ChunksFrom(text, start, size, overlap) ==
    LET n == Len(text)
        end == Min(start + size, n)
        chunk == SubSeq(text, start + 1, end)
    IN  IF start >= n THEN << >>
        ELSE << [char_start |-> start, char_end |-> end, content |-> chunk,
                 token_estimate |-> est_tokens_by_chars(chunk),
                 content_md5 |-> Md5(chunk)] >>
             \o (IF end = n THEN << >>
                 ELSE ChunksFrom(text, Max(0, end - overlap), size, overlap))

\* make_chunks, lines 32-56 (it does not return when overlap >= size and the
\* text is longer than size; the model calls it with overlap < size)
make_chunks(text, size, overlap) ==
    IF text = << >> THEN << >> ELSE ChunksFrom(text, 0, size, overlap)

\* to_iso_from_unix, lines 72-80, for a number of seconds within the range of
\* datetime
to_iso_from_unix(ts) == IF ts = NoTime THEN << >> ELSE <<"iso", ts, "Z">>

\* obj.get("text") or obj.get("html") or obj.get("raw_html"), lines 93 and 217
\* (html stands for the two keys html and raw_html)
BaseText(obj) == IF obj.text # << >> THEN obj.text ELSE obj.html

\* ensure_url, lines 83-96
polar_ensure_url(obj) ==
    IF Strip(obj.url) # << >> THEN Strip(obj.url)
    ELSE <<"missing://", Md5(OrEmpty(obj.title) \o <<"|">> \o BaseText(obj))>>

\* upsert_document lines 101-114 and 134-146: the values bound to the
\* statement.  extra holds the keys outside the known ones; an empty dict is
\* replaced by None, and json.dumps(None) is the JSON text null, which
\* to_jsonb(%s::json) stores as the jsonb value null.
PolarValues(obj) ==
    [domain         |-> obj.domain,
     fetched_at     |-> obj.fetched_at,
     fetched_at_iso |-> to_iso_from_unix(obj.fetched_at),
     status         |-> obj.status,
     content_type   |-> obj.content_type,
     title          |-> obj.title,
     lang           |-> obj.lang,
     text           |-> obj.text,
     raw_html       |-> obj.html,
     extra_json     |-> JsonDumps(IF obj.extra # << >> THEN obj.extra ELSE Null)]

\* lines 116-131: the row inserted, and the row after ON CONFLICT (url) DO
\* UPDATE, which sets every column of the values
PolarRow(id, v, now) ==
    [id |-> id, domain |-> v.domain, fetched_at |-> v.fetched_at,
     fetched_at_iso |-> v.fetched_at_iso, status |-> v.status,
     content_type |-> v.content_type, title |-> v.title, lang |-> v.lang,
     text |-> v.text, raw_html |-> v.raw_html, extra_json |-> v.extra_json,
     updated_at |-> now]

\* upsert_document, lines 99-153.  A line that is JSON but no object (kind
\* "list") raises at the first obj.get, before any statement is sent.
polar_upsert_document(st, obj, now) ==
    IF obj.kind # "dict" THEN [st EXCEPT !.err = TRUE]
    ELSE LET url == polar_ensure_url(obj)
             v == PolarValues(obj)
             seq1 == st.seq + 1
         IN  IF url \in DOMAIN st.docs
             THEN [st EXCEPT !.seq = seq1,
                             !.docs = Put(st.docs, url,
                                          PolarRow(st.docs[url].id, v, now)),
                             !.ret = st.docs[url].id]
             ELSE IF IdTaken(st.docs, seq1)
             THEN [st EXCEPT !.seq = seq1, !.err = TRUE]
             ELSE [st EXCEPT !.seq = seq1,
                             !.docs = Put(st.docs, url, PolarRow(seq1, v, now)),
                             !.ret = seq1]

\* insert_chunks lines 166-175, for one row: INSERT ... ON CONFLICT DO NOTHING
ChunkInsert(st, row, now) ==
    IF <<row.doc_id, row.chunk_index>> \in DOMAIN st.chunks THEN st
    ELSE [st EXCEPT !.chunks = Put(st.chunks, <<row.doc_id, row.chunk_index>>,
            [content |-> row.content, char_start |-> row.char_start,
             char_end |-> row.char_end, token_estimate |-> row.token_estimate,
             content_md5 |-> row.content_md5, updated_at |-> now])]

\* insert_chunks lines 158-161: the rows of one document
ChunkRows(doc_id, pieces) ==
    [i \in 1..Len(pieces) |->
        [doc_id |-> doc_id, chunk_index |-> i - 1,
         content |-> pieces[i].content, char_start |-> pieces[i].char_start,
         char_end |-> pieces[i].char_end,
         token_estimate |-> pieces[i].token_estimate,
         content_md5 |-> pieces[i].content_md5]]

RECURSIVE ChunkInsertAll(_, _, _)
ChunkInsertAll(st, rows, now) ==
    IF rows = << >> THEN st
    ELSE The({ ChunkInsertAll(s1, Tail(rows), now)
             : s1 \in {ChunkInsert(st, Head(rows), now)} })

\* insert_chunks, lines 156-177
insert_chunks(st, doc_id, base_text, size, overlap, now) ==
    The({ IF rows = << >> THEN st
          ELSE Stmt(st, ChunkInsertAll(st, rows, now))
        : rows \in {ChunkRows(doc_id, make_chunks(base_text, size, overlap))} })

\* main lines 200-230: the loop over the JSONL file.  An exception of
\* upsert_document is answered by conn.rollback(), which undoes every upsert
\* since the last commit, and the loop goes on.  A line that json.loads
\* refuses is counted in bad_lines and passed over (lines 202-206);
\* insert_chunks has no statement that fails on a document that exists.
\* lines 207-211: upsert_document and its except branch
PolarDoc(st, obj, now) ==
    The({ IF s1.err
          THEN Rollback([s1 EXCEPT !.err = FALSE, !.bad = s1.bad + 1])
          ELSE s1
        : s1 \in {IF obj.kind = "dict"
                  THEN Stmt(st, polar_upsert_document(st, obj, now))
                  ELSE polar_upsert_document(st, obj, now)} })

\* lines 225-229, after insert_chunks has returned
PolarDone(st) ==
    IF Halted(st) THEN st
    ELSE IF (st.cnt + 1) % PolarCommitEvery = 0
    THEN Commit([st EXCEPT !.cnt = st.cnt + 1])
    ELSE [st EXCEPT !.cnt = st.cnt + 1]

RECURSIVE PolarLoop(_, _, _)
PolarLoop(st, file, now) ==
    IF file = << >> \/ Halted(st) THEN st
    ELSE IF ~IsJson(Head(file))
    THEN PolarLoop([st EXCEPT !.bad = st.bad + 1], Tail(file), now)
    ELSE The({ IF s1.bad # st.bad \/ Halted(s1)
               THEN PolarLoop(s1, Tail(file), now)
               ELSE The({ The({ PolarLoop(s3, Tail(file), now)
                              : s3 \in {PolarDone(s2)} })
                        : s2 \in {insert_chunks(s1, s1.ret, BaseText(Head(file)),
                                                ChunkSize, Overlap, now)} })
             : s1 \in {PolarDoc(st, Head(file), now)} })

\* main, lines 180-236
PolarMain(d, file, now, mortal, fuel) ==
    The({ The({ The({ Commit(s2)
        : s2 \in {PolarLoop(s1, file, now)} })
        : s1 \in {RunState(d0, mortal, fuel)} })
        : d0 \in {d} })

-----------------------------------------------------------------------------
(* Inputs of the two scripts *)

U1 == <<"h", "t", "t", "p", "1">>

U2 == <<"h", "t", "t", "p", "2">>

\* U1 with a leading blank, as a file may carry it
U1p == <<" ">> \o U1

\* a line of a documents file (documents_min.jsonl), as json.loads returns it;
\* << >> stands for a key that is absent, None or ""
DocRec(id, url, title, text, extra) ==
    [id |-> id, url |-> url, domain |-> <<"d">>,
     fetched_at_iso |-> << >>, fetched_at |-> NoTime,
     title |-> title, lang |-> <<"z", "h">>, text |-> text,
     extra_json |-> extra]

DocA1 == [DocRec(1, U1, <<"t">>, <<"a", "b", "c">>, <<"meta", "m1">>)
            EXCEPT !.fetched_at_iso = <<"iso", 5>>]

DocA2 == [DocRec(1, U1p, Null, <<"x", "y">>, Null)
            EXCEPT !.fetched_at = 2000000000, !.lang = Null]

DocA3 == DocRec(1, U1, <<"t">>, <<"a", "b", "c">>, <<"meta", "m3">>)

DocB == DocRec(1, U2, <<"t">>, <<"b">>, Null)

DocX == [DocRec(2, U2, <<"t", "|">>, <<"x">>, <<"meta", "m2">>)
            EXCEPT !.fetched_at = 7]

DocN1 == DocRec(NoId, U1, <<"n">>, <<"a", "b">>, Null)

DocN2 == DocRec(NoId, U2, Null, <<"q">>, <<"meta", "m2">>)

DocN0 == DocRec(NoId, << >>, <<"t">>, <<"|", "x">>, Null)

DocN0b == DocRec(NoId, <<" ">>, <<"t", "|">>, <<"x">>, Null)

\* the document of id 1 with a text of two sentences, and with a later text
\* of one
DocS1 == DocRec(1, U1, <<"t">>, <<"a", "U+3002", "b">>, Null)

DocS2 == DocRec(1, U1, <<"t">>, <<"x", "y">>, Null)

DocRecs ==
    {DocA1, DocA2, DocA3, DocB, DocX, DocN1, DocN2, DocN0, DocN0b, DocS1, DocS2}

\* a line of a chunks file; ref is its document_id (or doc_id): a number
\* (0 also for None and an absent key) or a str that starts with "http"
ChunkRec(ref, idx, content, cstart, cend) ==
    [ref |-> ref, chunk_index |-> idx, content |-> content,
     char_start |-> cstart, char_end |-> cend]

ById(id) == [kind |-> "id", id |-> id, url |-> << >>]

ByUrl(url) == [kind |-> "url", id |-> 0, url |-> url]

ChunkFiles ==
    { << >>,
      << ChunkRec(ById(1), 0, <<"a", "b">>, 0, 2),
         ChunkRec(ById(1), 1, <<"c">>, 2, 3) >>,
      << ChunkRec(ById(1), 0, <<"x", "y", "x", "y", "x">>, 0, 5) >>,
      << ChunkRec(ByUrl(U1), 0, <<"a">>, 0, 1),
         ChunkRec(ByUrl(U2), 0, <<"q">>, 0, 1),
         ChunkRec(ById(0), 0, <<"z">>, 0, 1) >>,
      << ChunkRec(ById(2), 0, <<"x">>, 0, 1) >> }

DocFiles ==
    { << >>,
      <<DocA1>>,
      <<DocA3>>,
      <<DocA1, DocX>>,
      <<DocA1, DocX, DocA2>>,
      <<DocA2, DocX, DocA3>>,
      <<DocB>>,
      <<DocN1>>,
      <<DocN2, DocN1>>,
      <<DocN1, DocB>>,
      <<DocN0, DocN0b>>,
      <<DocS1>>,
      <<DocS2>> }

\* the runs made before the run under study
PriorDocFiles == { <<DocA1>>, <<DocN2, DocN1>>, <<DocA1, DocX>>, <<DocS1>> }

DbInputs == [docs : DocFiles, chunks : ChunkFiles \cup {NoChunksFile}]

DbPriorInputs ==
    [docs : PriorDocFiles,
     chunks : {f \in ChunkFiles : Len(f) # 1} \cup {NoChunksFile}]

\* a line of the JSONL file of ingest_jsonl_to_polardb.py; extra: the keys
\* outside the known ones (<< >>: none), kind "list": a line such as [1]
Obj(url, title, text, html, extra) ==
    [kind |-> "dict", url |-> url, domain |-> <<"d">>, fetched_at |-> 5,
     status |-> 200, content_type |-> <<"h">>, title |-> title,
     lang |-> <<"z", "h">>, text |-> text, html |-> html, extra |-> extra]

ObjP1 == Obj(U1, <<"t">>, <<"a", "b", "c">>, << >>, <<"checksum", "c1">>)

ObjP2 == [Obj(U1p, Null, <<"x", "y">>, << >>, << >>)
            EXCEPT !.fetched_at = NoTime, !.lang = Null]

ObjP3 == Obj(U2, <<"t">>, << >>, <<"<", "p", ">">>, <<"checksum", "c3">>)

ObjP0 == Obj(<< >>, <<"t">>, <<"q">>, << >>, << >>)

ObjBad == [Obj(<< >>, Null, << >>, << >>, << >>) EXCEPT !.kind = "list"]

Objs == {ObjP1, ObjP2, ObjP3, ObjP0, ObjBad}

PolarInputs ==
    { << >>,
      <<ObjP1>>,
      <<ObjP2>>,
      <<ObjP1, ObjP2>>,
      <<ObjP1, ObjBad, ObjP3>>,
      <<ObjP1, ObjP3, ObjBad, ObjP0>>,
      <<ObjP3, ObjP0, ObjP2>> }

PolarPriorInputs == { <<ObjP1>>, <<ObjP3, ObjP0, ObjP2>> }

Inputs(i) == IF i = "db" THEN DbInputs ELSE PolarInputs

PriorInputs(i) == IF i = "db" THEN DbPriorInputs ELSE PolarPriorInputs

-----------------------------------------------------------------------------
(* Runs of the scripts against one store *)

\* runs before the run under study
MaxPriorRuns == 1

\* statements a run that is killed has sent before
MaxFuel == 7

\* runs of the script under study that are killed, one after the other
MaxRunCrashes == 1

\* the variables of the crawler pipeline, at rest
GateIdle ==
    /\ seen = << >>
    /\ text_index = << >>
    /\ jsonl = << >>
    /\ last = [item |-> NoItem, outcome |-> "none"]
    /\ ended = {}
    /\ accepted = {}
    /\ pc = "idle"
    /\ cur = NoItem
    /\ crashes = 0

StoreInit ==
    /\ GateIdle
    /\ CallIdle
    /\ impl \in {"db", "polardb"}
    /\ db = EmptyDb
    /\ clock = 0
    /\ phase = "prior"
    /\ input = << >>
    /\ base = EmptyDb
    /\ after = [db |-> EmptyDb, err |-> FALSE]
    /\ err = FALSE
    /\ nruns = 0

\* one run of main of the script of this behaviour
Main(d, in, now, mortal, fuel) ==
    IF impl = "db" THEN DbMain(d, in, now, mortal, fuel)
    ELSE PolarMain(d, in, now, mortal, fuel)

\* a run to its end (or to its exception) before the run under study
PriorRun(in) ==
    /\ phase = "prior"
    /\ nruns < MaxPriorRuns
    /\ LET st == Main(db, in, clock + 1, FALSE, 0)
       IN  /\ db' = Durable(st)
           /\ err' = st.err
    /\ clock' = clock + 1
    /\ nruns' = nruns + 1
    /\ UNCHANGED <<impl, phase, input, base, after>>
    /\ UNCHANGED <<gateVars, crashes>>
    /\ UNCHANGED callVars

\* the run under study, to its end (or to its exception)
Run(in) ==
    /\ phase = "prior"
    /\ LET st == Main(db, in, clock + 1, FALSE, 0)
       IN  /\ db' = Durable(st)
           /\ err' = st.err
    /\ clock' = clock + 1
    /\ phase' = "ran"
    /\ input' = in
    /\ base' = db
    /\ UNCHANGED <<impl, after, nruns>>
    /\ UNCHANGED <<gateVars, crashes>>
    /\ UNCHANGED callVars

\* the same script run again with the same input
Rerun ==
    /\ phase \in {"ran", "crashed"}
    /\ LET st == Main(db, input, clock + 1, FALSE, 0)
       IN  /\ db' = Durable(st)
           /\ err' = st.err
    /\ clock' = clock + 1
    /\ phase' = IF phase = "ran" THEN "reran" ELSE "recovered"
    /\ after' = [db |-> db, err |-> err]
    /\ UNCHANGED <<impl, input, base, nruns>>
    /\ UNCHANGED <<gateVars, crashes>>
    /\ UNCHANGED callVars

\* the run under study, killed when it is about to send statement fuel + 1
\* (a run that ends earlier by itself is not killed)
CrashedRun(in, fuel) ==
    /\ phase \in {"prior", "crashed"}
    /\ crashes < MaxRunCrashes
    /\ phase = "crashed" => in = input
    /\ LET st == Main(db, in, clock + 1, TRUE, fuel)
       IN  /\ st.crashed
           /\ db' = Durable(st)
    /\ err' = FALSE
    /\ clock' = clock + 1
    /\ phase' = "crashed"
    /\ input' = in
    /\ base' = IF phase = "prior" THEN db ELSE base
    /\ crashes' = crashes + 1
    /\ UNCHANGED <<impl, after, nruns>>
    /\ UNCHANGED gateVars
    /\ UNCHANGED callVars

IngestNext ==
    \/ \E in \in PriorInputs(impl) : PriorRun(in)
    \/ \E in \in Inputs(impl) : Run(in)
    \/ Rerun
    \/ \E in \in Inputs(impl), fuel \in 0..MaxFuel : CrashedRun(in, fuel)

SpecIngest == StoreInit /\ [][IngestNext]_vars

-----------------------------------------------------------------------------
(* The writers of the two scripts, one call at a time, each in a transaction
   that is committed when the call returns and undone when it raises *)

\* calls in one behaviour
MaxOps == 3

UpsertInit ==
    /\ GateIdle
    /\ CallIdle
    /\ impl \in {"db", "polardb"}
    /\ db = EmptyDb
    /\ clock = 0
    /\ phase = "none"
    /\ input = << >>
    /\ base = EmptyDb
    /\ after = [db |-> EmptyDb, err |-> FALSE]
    /\ err = FALSE
    /\ nruns = 0

\* the batches handed to bulk_upsert_chunks
RowBatches == {ChunkBatch(f, << >>) : f \in ChunkFiles} \ {<< >>}

\* the texts handed to insert_chunks
BaseTexts == {BaseText(o) : o \in Objs}

DocIds(d) == {d.docs[u].id : u \in DOMAIN d.docs}

\* the store after a call that has led the transaction to st
Called(st) ==
    /\ db' = Durable(The({Commit(s1) : s1 \in {st}}))
    /\ err' = st.err
    /\ clock' = clock + 1
    /\ nruns' = nruns + 1
    /\ base' = db
    /\ UNCHANGED <<impl, after>>
    /\ UNCHANGED <<gateVars, crashes>>
    /\ UNCHANGED callVars

\* ingest_jsonl_to_db.upsert_document(cur, rec)
DbUpsertDocument(rec) ==
    /\ impl = "db"
    /\ nruns < MaxOps
    /\ phase' = "doc"
    /\ input' = rec
    /\ Called(The({upsert_document(s0, rec, clock + 1)
                   : s0 \in {RunState(db, FALSE, 0)}}))

\* ingest_jsonl_to_db.bulk_upsert_chunks(cur, rows)
DbUpsertChunks(rows) ==
    /\ impl = "db"
    /\ nruns < MaxOps
    /\ phase' = "chunks"
    /\ input' = rows
    /\ Called(The({bulk_upsert_chunks(s0, rows, clock + 1)
                   : s0 \in {RunState(db, FALSE, 0)}}))

\* ingest_jsonl_to_polardb.upsert_document(cur, obj)
PolarUpsertDocument(obj) ==
    /\ impl = "polardb"
    /\ nruns < MaxOps
    /\ phase' = "doc"
    /\ input' = obj
    /\ Called(The({polar_upsert_document(s0, obj, clock + 1)
                   : s0 \in {RunState(db, FALSE, 0)}}))

\* ingest_jsonl_to_polardb.insert_chunks(cur, doc_id, base_text, size,
\* overlap), for the id of a document of the store
PolarInsertChunks(doc_id, base_text) ==
    /\ impl = "polardb"
    /\ nruns < MaxOps
    /\ phase' = "chunks"
    /\ input' = [doc_id |-> doc_id, base_text |-> base_text]
    /\ Called(The({insert_chunks(s0, doc_id, base_text, ChunkSize, Overlap,
                                 clock + 1)
                   : s0 \in {RunState(db, FALSE, 0)}}))

UpsertNext ==
    \/ \E rec \in DocRecs : DbUpsertDocument(rec)
    \/ \E rows \in RowBatches : DbUpsertChunks(rows)
    \/ \E obj \in Objs : PolarUpsertDocument(obj)
    \/ \E doc_id \in DocIds(db), base_text \in BaseTexts :
            PolarInsertChunks(doc_id, base_text)

SpecUpsert == UpsertInit /\ [][UpsertNext]_vars

-----------------------------------------------------------------------------
(* Claims about the upsert layer *)

\* the rows of a table without their timestamps
NoStamp(t) ==
    [k \in DOMAIN t |-> [f \in DOMAIN t[k] \ {"updated_at"} |-> t[k][f]]]

Rows(d) == [docs |-> NoStamp(d.docs), chunks |-> NoStamp(d.chunks)]

\* the url under which the record of the last upsert_document call is stored
InputUrl ==
    IF impl = "db" THEN ensure_url(input.url, OrEmpty(input.title), input.text)
    ELSE polar_ensure_url(input)

\* the column values of the record of the last upsert_document call
InputValues == IF impl = "db" THEN DocValues(input) ELSE PolarValues(input)

\* the record of the last upsert_document call carries an extra value
InputHasExtra ==
    IF impl = "db" THEN input.extra_json # Null ELSE input.extra # << >>

\* the chunk rows the last chunk writer call was to write
ProducedRows ==
    IF impl = "db" THEN input
    ELSE ChunkRows(input.doc_id,
                   make_chunks(input.base_text, ChunkSize, Overlap))

\* the first run and its repetition are over
Reran == phase = "reran"

C7_UpsertKeyedByUrl ==
    (phase = "doc" /\ ~err /\ InputUrl \in DOMAIN base.docs) =>
        /\ DOMAIN db.docs = DOMAIN base.docs
        /\ \A f \in {"domain", "fetched_at_iso", "title", "lang", "text"} :
              db.docs[InputUrl][f] = InputValues[f]
        /\ db.docs[InputUrl].extra_json =
              IF InputHasExtra THEN InputValues.extra_json
              ELSE base.docs[InputUrl].extra_json

\* C8: after a call of a chunk writer, the row at every (doc_id, chunk_index)
\* the call produced holds the content, char_start, char_end, token_estimate
\* and content_md5 the call produced, whether or not a row was there before;
\* for both scripts.
C8_ChunkOverwritten ==
    (phase = "chunks" /\ ~err) =>
        \A i \in 1..Len(ProducedRows) :
            LET r == ProducedRows[i]
                k == <<r.doc_id, r.chunk_index>>
            IN  /\ k \in DOMAIN db.chunks
                /\ \A f \in {"content", "char_start", "char_end",
                             "token_estimate", "content_md5"} :
                      db.chunks[k][f] = r[f]

\* the record's url as the documents table stores it
UrlOf(rec) == ensure_url(rec.url, OrEmpty(rec.title), rec.text)

\* C9: after a run of ingest_jsonl_to_db.main that has ended without an error,
\* whatever the store held before, the row of the url of every record that
\* carries an id has that id, so that a line of the chunks file that names the
\* id is attached to the row of that record.
C9_IdsAreJoinKeys ==
    (impl = "db" /\ phase = "ran" /\ ~err) =>
        \A i \in 1..Len(input.docs) :
            LET rec == input.docs[i]
            IN  rec.id # NoId =>
                    /\ UrlOf(rec) \in DOMAIN db.docs
                    /\ db.docs[UrlOf(rec)].id = rec.id

\* every record of the documents file carries an id
AllExplicit(file) == \A i \in 1..Len(file) : file[i].id # NoId

\* a killed run has been followed by a run to the end
Recovered == impl = "db" /\ phase = "recovered"

\* the store after a run over the same input that nothing interrupts
Uninterrupted == Durable(DbMain(base, input, 0, FALSE, 0))

\* C10 as stated: after a run killed before a commit, a run of
\* ingest_jsonl_to_db.main over the same files ends in the documents and
\* chunks rows, timestamps apart, of a run that was never interrupted.
C10_Original == Recovered => Rows(db) = Rows(Uninterrupted)

\* C10: when every record of the documents file carries an id, a run of
\* ingest_jsonl_to_db.main over the same files after a run killed at any
\* statement ends in the documents and chunks rows, timestamps apart, of a run
\* that was never interrupted.
C10_RetryAfterCrash ==
    (Recovered /\ AllExplicit(input.docs)) => Rows(db) = Rows(Uninterrupted)

\* a run killed after a periodic commit and before its last: the store held
\* part of the file when the retry began, and the retry completed it
C10_Witness ==
    /\ Recovered
    /\ AllExplicit(input.docs)
    /\ ~err
    /\ Rows(after.db) # Rows(base)
    /\ Rows(after.db) # Rows(db)
    /\ DOMAIN db.chunks # {}

-----------------------------------------------------------------------------
(* Calls of the functions of the chunking engine, one per behaviour *)

\* length of the texts handed to the functions
MaxTextLen == 6

\* the characters of the texts: a letter, a separator, a blank, a newline
Alphabet == {"a", "U+3002", " ", "\n"}

Texts == UNION {[1..n -> Alphabet] : n \in 0..MaxTextLen}

\* texts in which a chunk occurs twice, or occurs only before the cursor
EchoTexts ==
    { <<"a", " ", "a", "U+3002", "a", "\n", "\n", "a">>,
      <<"a", "U+3002", "a", " ", "a", "\n", "\n", "a">>,
      <<"a", "\n", "a", "U+3002", "a", "?", "a", "\n", "a">> }

\* (max_chars, min_chars) of split_text
SplitParams == {<<2, 2>>, <<3, 2>>, <<4, 3>>}

\* a text of fragments of the given lengths, each closed by a full stop
RECURSIVE Build(_)
Build(lens) ==
    IF lens = << >> THEN << >>
    ELSE Rep("a", Head(lens)) \o <<"U+3002">> \o Build(Tail(lens))

\* fragment lengths around MIN_CHARS and MAX_CHARS
FragLens == {400, 599, 600, 832, 950, 1000, 1200}

\* texts of 2500 characters: one fragment, three fragments, four fragments
\* of 624, 25 fragments of 99
LongTexts ==
    {Rep("a", 2500)}
    \cup {Build(<<a, b, 2497 - a - b>>) : a \in FragLens, b \in FragLens}
    \cup {Build(Rep(624, 4)), Build(Rep(99, 25))}

\* the calls: the function and its arguments
SplitCalls ==
    [f : {"split_text"}, text : Texts,
     max_chars : {p[1] : p \in SplitParams},
     min_chars : {p[2] : p \in SplitParams}]

ChunkCalls ==
    {c \in SplitCalls : <<c.max_chars, c.min_chars>> \in SplitParams}
    \cup {[f |-> "convert.split_text", text |-> t,
           max_chars |-> MAX_CHARS, min_chars |-> MIN_CHARS] : t \in LongTexts}
    \cup {[f |-> "auto_chunk_all", text |-> t,
           max_chars |-> p[1], min_chars |-> p[1] \div 2]
          : t \in Texts \cup EchoTexts, p \in SplitParams}
    \cup {[f |-> "convert", text |-> t,
           max_chars |-> MAX_CHARS, min_chars |-> MIN_CHARS]
          : t \in Texts \cup EchoTexts}

\* the largest chunk size of the calls of make_chunks
MaxSize == 4

\* the texts of the calls of make_chunks
SliceTexts == UNION {[1..n -> {"a", "b"}] : n \in 0..MaxTextLen}

\* the calls of make_chunks: overlap < size (it does not return otherwise)
SliceCalls ==
    {[f |-> "make_chunks", text |-> t, size |-> so[1], overlap |-> so[2]]
        : t \in SliceTexts,
          so \in {x \in (1..MaxSize) \X (0..MaxSize) : x[2] < x[1]}}


\* a call is about to be made
ChunkInit ==
    /\ GateIdle
    /\ StoreIdle
    /\ fn = "none"
    /\ arg \in ChunkCalls \cup SliceCalls
    /\ res = << >>

\* what the call leaves behind
Returned(r) ==
    /\ fn' = arg.f
    /\ res' = r
    /\ UNCHANGED <<arg, gateVars, crashes, storeVars>>

\* ingest_jsonl_to_db.split_text(text, max_chars, min_chars)
CallSplitText ==
    /\ fn = "none"
    /\ arg.f = "split_text"
    /\ Returned(split_text(arg.text, arg.max_chars, arg.min_chars))

\* convert_to_documents_and_chunks.split_text(text)
CallConvertSplitText ==
    /\ fn = "none"
    /\ arg.f = "convert.split_text"
    /\ Returned(convert_split_text(arg.text))

\* the chunk loop of auto_chunk_all for one row of documents
CallAutoChunk ==
    /\ fn = "none"
    /\ arg.f = "auto_chunk_all"
    /\ Returned(auto_chunks(arg.text, arg.max_chars))

\* the chunk loop of convert for one line of the input
CallConvertChunks ==
    /\ fn = "none"
    /\ arg.f = "convert"
    /\ Returned(convert_chunks(arg.text))

\* make_chunks(text, size, overlap) of ingest_jsonl_to_polardb
CallMakeChunks ==
    /\ fn = "none"
    /\ arg.f = "make_chunks"
    /\ Returned(make_chunks(arg.text, arg.size, arg.overlap))

ChunkNext ==
    \/ CallMakeChunks
    \/ CallSplitText
    \/ CallConvertSplitText
    \/ CallAutoChunk
    \/ CallConvertChunks

SpecChunk == ChunkInit /\ [][ChunkNext]_vars

-----------------------------------------------------------------------------
(* The loop of make_chunks (ingest_jsonl_to_polardb.py lines 44-56), one
   iteration per step, called with any overlap.  While the call runs, fn is
   the line the call is at, arg holds the local variable start next to the
   arguments and res the list chunks. *)

\* the calls: --chunk-size and --overlap are taken as given (lines 183-184)
WindowCalls ==
    {[f |-> "make_chunks", text |-> t, size |-> s, overlap |-> o, start |-> 0]
        : t \in SliceTexts, s \in 1..MaxSize, o \in 0..MaxSize}

\* the iterations followed: an iteration that moves the window forward moves
\* it by one character or more, so a call that returns makes fewer
MaxWindows == MaxTextLen + 1

WindowInit ==
    /\ GateIdle
    /\ StoreIdle
    /\ fn = "none"
    /\ arg \in WindowCalls
    /\ res = << >>

\* the call stands at the head of the loop, line 46
AtLoop(start, chunks) ==
    /\ fn' = "make_chunks:46"
    /\ arg' = [arg EXCEPT !.start = start]
    /\ res' = chunks
    /\ UNCHANGED <<gateVars, crashes, storeVars>>

\* lines 38-45
MakeChunksEnter ==
    /\ fn = "none"
    /\ IF arg.text = << >> THEN Returned(<< >>) ELSE AtLoop(0, << >>)

\* lines 46-56: one iteration of the loop, or its end
MakeChunksIterate ==
    /\ fn = "make_chunks:46"
    /\ Len(res) < MaxWindows
    /\ LET n == Len(arg.text)
           end == Min(arg.start + arg.size, n)
           chunk == SubSeq(arg.text, arg.start + 1, end)
           chunks == Append(res,
                        [char_start |-> arg.start, char_end |-> end,
                         content |-> chunk,
                         token_estimate |-> est_tokens_by_chars(chunk),
                         content_md5 |-> Md5(chunk)])
       IN  IF arg.start >= n THEN Returned(res)
           ELSE IF end = n THEN Returned(chunks)
           ELSE AtLoop(Max(0, end - arg.overlap), chunks)

WindowNext ==
    \/ MakeChunksEnter
    \/ MakeChunksIterate

SpecWindow == WindowInit /\ [][WindowNext]_vars /\ WF_vars(WindowNext)

-----------------------------------------------------------------------------
(* The table interpreter and the text synthesizer of FocusedSpider
   (src/crawler/spiders/focused_spider.py).  A text is a sequence of tokens:
   a label of META_KEYS or BEARER_KEYS, a word of a value, or one character
   (blank, newline, colon, bracket).  Labels and words are written with the
   code points of their characters. *)

\* META_KEYS, lines 10-13 (also the order of _block_meta_readable, lines
\* 67-68): xiangmu xuhao, xiangmu bianhao, gongbu shijian, gongbu pici, pici,
\* leibie, suoshu diqu, leixing, shenbao diqu huo danwei, baohu danwei
META_KEYS ==
    << "U+9879U+76EEU+5E8FU+53F7", "U+9879U+76EEU+7F16U+53F7",
       "U+516CU+5E03U+65F6U+95F4", "U+516CU+5E03U+6279U+6B21", "U+6279U+6B21",
       "U+7C7BU+522B", "U+6240U+5C5EU+5730U+533A", "U+7C7BU+578B",
       "U+7533U+62A5U+5730U+533AU+6216U+5355U+4F4D",
       "U+4FDDU+62A4U+5355U+4F4D" >>

\* META_KEYS_SET, line 14
META_KEYS_SET == {META_KEYS[i] : i \in DOMAIN META_KEYS}

\* the order of _block_bearers_readable, line 83: bianhao, xingming,
\* xingbie, chusheng riqi, minzu, leibie, xiangmu bianhao, xiangmu mingcheng,
\* shenbao diqu huo danwei
BEARER_ORDER ==
    << "U+7F16U+53F7", "U+59D3U+540D", "U+6027U+522B",
       "U+51FAU+751FU+65E5U+671F", "U+6C11U+65CF", "U+7C7BU+522B",
       "U+9879U+76EEU+7F16U+53F7", "U+9879U+76EEU+540DU+79F0",
       "U+7533U+62A5U+5730U+533AU+6216U+5355U+4F4D" >>

\* the four keys of the name summary, lines 89-92 and 103
NAME_KEYS ==
    {"U+59D3U+540D", "U+6027U+522B", "U+6C11U+65CF", "U+51FAU+751FU+65E5U+671F"}

\* RULER, line 379: two newlines, two em dashes, two newlines
RULER == <<"\n", "\n", "U+2014U+2014", "\n", "\n">>

\* the characters of "：:" (the full-width and the ASCII colon)
Colons == {"U+FF1A", ":"}

\* sep.join(items)
RECURSIVE JoinWith(_, _)
JoinWith(items, sep) ==
    IF items = << >> THEN << >>
    ELSE IF Len(items) = 1 THEN items[1]
    ELSE items[1] \o sep \o JoinWith(Tail(items), sep)

\* [x for x in items if x]
RECURSIVE NonEmpty(_)
NonEmpty(items) ==
    IF items = << >> THEN << >>
    ELSE (IF Head(items) = << >> THEN << >> ELSE <<Head(items)>>)
         \o NonEmpty(Tail(items))

\* a dict is the sequence of its <<key, value>> items in insertion order
DictKeys(d) == {d[i][1] : i \in DOMAIN d}

\* d.get(k): the value, the empty text for a missing key (None and "" are
\* both false and both strip to "")
DictGet(d, k) ==
    IF k \in DictKeys(d) THEN d[CHOOSE i \in DOMAIN d : d[i][1] = k][2]
    ELSE << >>

\* d[k] = v
DictSet(d, k, v) ==
    IF k \in DictKeys(d)
    THEN [i \in DOMAIN d |-> IF d[i][1] = k THEN <<k, v>> ELSE d[i]]
    ELSE Append(d, <<k, v>>)

\* _norm, lines 139-143: " ".join(s.split())
RECURSIVE Collapse(_)
Collapse(s) ==
    IF s = << >> THEN << >>
    ELSE IF Head(s) \in Whitespace
         THEN <<" ">> \o Collapse(LStrip(s))
         ELSE <<Head(s)>> \o Collapse(Tail(s))

_norm(s) == Collapse(Strip(s))

\* s.rstrip("：:")
RECURSIVE RStripColons(_)
RStripColons(s) ==
    IF s # << >> /\ s[Len(s)] \in Colons
    THEN RStripColons(SubSeq(s, 1, Len(s) - 1))
    ELSE s

\* cells[i].rstrip("：:").strip(), lines 208 and 212
KeyRaw(cell) == Strip(RStripColons(cell))

\* key_raw in META_KEYS_SET
IsMetaKey(key_raw) == Len(key_raw) = 1 /\ key_raw[1] \in META_KEYS_SET

\* _parse_meta_row_by_pairs lines 207-220: the loop from cell i
RECURSIVE PairsFrom(_, _, _)
PairsFrom(cells, i, out) ==
    IF i > Len(cells) THEN out
    ELSE IF IsMetaKey(KeyRaw(cells[i]))
    THEN LET val == IF i + 1 <= Len(cells) THEN Strip(cells[i + 1]) ELSE << >>
             nxt == IF i + 1 <= Len(cells) THEN KeyRaw(cells[i + 1])
                    ELSE << >>
         IN  IF IsMetaKey(nxt)
             THEN PairsFrom(cells, i + 1, DictSet(out, KeyRaw(cells[i])[1], << >>))
             ELSE PairsFrom(cells, i + 2,
                            DictSet(out, KeyRaw(cells[i])[1], _norm(val)))
    ELSE PairsFrom(cells, i + 1, out)

\* _parse_meta_row_by_pairs, lines 201-221
_parse_meta_row_by_pairs(cells) == PairsFrom(cells, 1, << >>)

\* the first position from j on that holds no whitespace (\s*)
RECURSIVE SkipWs(_, _)
SkipWs(text, j) ==
    IF j <= Len(text) /\ text[j] \in Whitespace THEN SkipWs(text, j + 1) ELSE j

\* meta_kv_regex (line 58) matches at position i: a label, \s*, a colon
MatchAt(text, i) ==
    /\ text[i] \in META_KEYS_SET
    /\ SkipWs(text, i + 1) <= Len(text)
    /\ text[SkipWs(text, i + 1)] \in Colons

\* m.end() of the match at i, as the position of the first token after it
MatchEnd(text, i) == SkipWs(text, SkipWs(text, i + 1) + 1)

\* m.start() of the first match from position j on, Len(text) + 1 if none
RECURSIVE NextMatch(_, _)
NextMatch(text, j) ==
    IF j > Len(text) THEN Len(text) + 1
    ELSE IF MatchAt(text, j) THEN j
    ELSE NextMatch(text, j + 1)

\* _parse_meta_row_inside_cell lines 232-238: the loop from the match at i
RECURSIVE InsideFrom(_, _, _)
InsideFrom(text, i, out) ==
    IF i > Len(text) THEN out
    ELSE LET start == MatchEnd(text, i)
             end == NextMatch(text, start)
         IN  InsideFrom(text, end,
                        DictSet(out, text[i], _norm(SubSeq(text, start, end - 1))))

\* _parse_meta_row_inside_cell, lines 223-239
_parse_meta_row_inside_cell(cell_text) ==
    InsideFrom(cell_text, NextMatch(cell_text, 1), << >>)

\* _kv_table lines 252-254: the results of the pairing across cells
RECURSIVE MergePairs(_, _)
MergePairs(data, got) ==
    IF got = << >> THEN data
    ELSE MergePairs(
             IF ~(Head(got)[1] \in DictKeys(data)) /\ Head(got)[2] # << >>
             THEN DictSet(data, Head(got)[1], Head(got)[2]) ELSE data,
             Tail(got))

\* _kv_table lines 259-261: the results of the pairing inside one cell
RECURSIVE MergeInside(_, _)
MergeInside(data, got2) ==
    IF got2 = << >> THEN data
    ELSE MergeInside(
             IF \/ ~(Head(got2)[1] \in DictKeys(data))
                \/ DictGet(data, Head(got2)[1]) = << >>
             THEN DictSet(data, Head(got2)[1], Head(got2)[2]) ELSE data,
             Tail(got2))

\* _kv_table lines 257-261: the loop over the cells of a row
RECURSIVE InsideCells(_, _)
InsideCells(data, cells) ==
    IF cells = << >> THEN data
    ELSE InsideCells(
             MergeInside(data, _parse_meta_row_inside_cell(Head(cells))),
             Tail(cells))

\* _kv_table lines 243-261: the loop over the rows; a row is the sequence of
\* the normalised texts of its cells
RECURSIVE KvRows(_, _)
KvRows(data, rows) ==
    IF rows = << >> THEN data
    ELSE LET cells == NonEmpty(Head(rows))
         IN  IF cells = << >> THEN KvRows(data, Tail(rows))
             ELSE KvRows(
                      InsideCells(
                          MergePairs(data, _parse_meta_row_by_pairs(cells)),
                          cells),
                      Tail(rows))

\* _kv_table, lines 241-262
_kv_table(sel) == KvRows(<< >>, sel)

\* v and str(v).strip()
NonBlank(v) == Strip(v) # << >>

\* f"{k}：{str(v).strip()}", lines 73, 77, 107 and 113
KvLine(k, v) == <<k, "U+FF1A">> \o Strip(v)

\* the lines of the keys of a sequence whose values in d are not blank
RECURSIVE KvLines(_, _)
KvLines(d, keys) ==
    IF keys = << >> THEN << >>
    ELSE (IF NonBlank(DictGet(d, Head(keys)))
          THEN <<KvLine(Head(keys), DictGet(d, Head(keys)))>> ELSE << >>)
         \o KvLines(d, Tail(keys))

\* the keys of d, in its order, that are not in a set
RECURSIVE KeysOutside(_, _)
KeysOutside(d, known) ==
    IF d = << >> THEN << >>
    ELSE (IF Head(d)[1] \in known THEN << >> ELSE <<Head(d)[1]>>)
         \o KeysOutside(Tail(d), known)

\* _block_meta_readable, lines 64-78; the title is [xiangmu jiben xinxi]
_block_meta_readable(meta) ==
    LET lines == KvLines(meta, META_KEYS)
                 \o KvLines(meta, KeysOutside(meta, META_KEYS_SET))
    IN  IF lines = << >> THEN << >>
        ELSE <<"U+3010U+9879U+76EEU+57FAU+672CU+4FE1U+606FU+3011", "\n">>
             \o JoinWith(lines, <<"\n">>)

\* _block_bearers_readable lines 85-115: the line of one bearer, << >> when
\* it has no value
BearerLine(b) ==
    LET name == Strip(DictGet(b, "U+59D3U+540D"))
        attrs == KvLines(b, << "U+6027U+522B", "U+6C11U+65CF",
                               "U+51FAU+751FU+65E5U+671F" >>)
        summary == IF name = << >> THEN << >>
                   ELSE << <<"U+59D3U+540D", "U+FF1A">> \o name
                           \o (IF attrs = << >> THEN << >>
                               ELSE <<"U+FF08">>
                                    \o JoinWith(attrs, <<"U+FF0C">>)
                                    \o <<"U+FF09">>) >>
        head == summary
                \o KvLines(b, SelectSeq(BEARER_ORDER,
                                        LAMBDA k : ~(k \in NAME_KEYS)))
                \o KvLines(b, KeysOutside(b, {BEARER_ORDER[i]
                                                : i \in DOMAIN BEARER_ORDER}))
    IN  IF head = << >> THEN << >>
        ELSE <<"-", " ">> \o JoinWith(head, <<"U+FF1B">>)

RECURSIVE BearerLines(_)
BearerLines(bearers) ==
    IF bearers = << >> THEN << >>
    ELSE (IF BearerLine(Head(bearers)) = << >> THEN << >>
          ELSE <<BearerLine(Head(bearers))>>)
         \o BearerLines(Tail(bearers))

\* _block_bearers_readable, lines 80-116; the title is [daibiaoxing
\* chuanchengren]
_block_bearers_readable(bearers) ==
    IF BearerLines(bearers) = << >> THEN << >>
    ELSE <<"U+3010U+4EE3U+8868U+6027U+4F20U+627FU+4EBAU+3011", "\n">>
         \o JoinWith(BearerLines(bearers), <<"\n">>)

\* json.dumps of a str without quote, backslash or control character
DumpsStr(v) == <<"\"">> \o v \o <<"\"">>

\* json.dumps(d, ensure_ascii=False) of a dict of such strs
DumpsDict(d) ==
    <<"{">>
    \o JoinWith([i \in DOMAIN d |->
                    DumpsStr(<<d[i][1]>>) \o <<":", " ">> \o DumpsStr(d[i][2])],
                <<",", " ">>)
    \o <<"}">>

\* json.dumps(l, ensure_ascii=False) of a list of such dicts
DumpsList(l) ==
    <<"[">> \o JoinWith([i \in DOMAIN l |-> DumpsDict(l[i])], <<",", " ">>)
    \o <<"]">>

\* _block_meta_json, lines 119-123
_block_meta_json(meta) ==
    IF meta = << >> THEN << >>
    ELSE <<"U+3010U+9879U+76EEU+57FAU+672CU+4FE1U+606F-JSONU+3011", "\n">>
         \o DumpsDict(meta)

\* _block_bearers_json, lines 125-129
_block_bearers_json(bearers) ==
    IF bearers = << >> THEN << >>
    ELSE <<"U+3010U+4EE3U+8868U+6027U+4F20U+627FU+4EBA-JSONU+3011", "\n">>
         \o DumpsList(bearers)

\* parse_article lines 384-391: the blocks that are not empty
\* (Blocks_bearersFirst: the bearers block comes first)
Blocks_bearersFirst(meta, bearers, enrich_format) ==
    NonEmpty(IF enrich_format = "json"
             THEN <<_block_bearers_json(bearers), _block_meta_json(meta)>>
             ELSE <<_block_bearers_readable(bearers),
                    _block_meta_readable(meta)>>)

Blocks(meta, bearers, enrich_format) ==
    NonEmpty(IF enrich_format = "json"
             THEN <<_block_meta_json(meta), _block_bearers_json(bearers)>>
             ELSE <<_block_meta_readable(meta),
                    _block_bearers_readable(bearers)>>)

\* parse_article line 381
BaseBody(body_paras) == Strip(JoinWith(body_paras, <<"\n">>))

\* parse_article lines 393-395, enrich_mode "replace"
\* (ReplaceText_keepsBody: the body is kept before the blocks)
ReplaceText_keepsBody(blocks, base_body) ==
    IF blocks # << >> THEN Strip(base_body \o RULER \o JoinWith(blocks, RULER))
    ELSE base_body

ReplaceText(blocks, base_body) ==
    IF blocks # << >> THEN Strip(JoinWith(blocks, RULER)) ELSE base_body

\* parse_article lines 396-403, enrich_mode "append"
AppendText(blocks, base_body) ==
    IF base_body # << >> /\ blocks # << >>
    THEN Strip(base_body \o RULER \o JoinWith(blocks, RULER))
    ELSE IF blocks # << >> THEN Strip(JoinWith(blocks, RULER))
    ELSE base_body

\* parse_article lines 404-407, every other enrich_mode
\* (NoneText_noBlank: no blank line between the meta lines and the body)
NoneText_noBlank(meta, body_paras) ==
    LET meta_lines == [i \in DOMAIN meta |->
                          <<meta[i][1], "U+FF1A">> \o meta[i][2]]
    IN  Strip(JoinWith(meta_lines \o body_paras, <<"\n">>))

NoneText(meta, body_paras) ==
    LET meta_lines == [i \in DOMAIN meta |->
                          <<meta[i][1], "U+FF1A">> \o meta[i][2]]
    IN  Strip(JoinWith(meta_lines
                       \o (IF meta_lines # << >> /\ body_paras # << >>
                           THEN << << >> >> ELSE << >>)
                       \o body_paras,
                       <<"\n">>))

\* parse_article lines 378-407: the synthesized text
Synthesize(meta, bearers, body_paras, enrich_mode, enrich_format) ==
    IF enrich_mode = "replace"
    THEN ReplaceText(Blocks(meta, bearers, enrich_format), BaseBody(body_paras))
    ELSE IF enrich_mode = "append"
    THEN AppendText(Blocks(meta, bearers, enrich_format), BaseBody(body_paras))
    ELSE NoneText(meta, body_paras)

\* parse_article, lines 329-422, for a response whose tables are page.tables
\* (none, or the first one as its rows), whose other tables give the bearer
\* rows page.bearers and whose body gives the paragraphs page.body_paras: the
\* item it yields, << >> when the status is not 200 and it yields nothing
parse_article(page) ==
    IF page.status # 200 THEN << >>
    ELSE LET meta == IF page.tables = << >> THEN << >>
                     ELSE _kv_table(page.tables[1])
         IN  [text |-> Synthesize(meta, page.bearers, page.body_paras,
                                  page.enrich_mode, page.enrich_format),
              meta |-> meta,
              bearers |-> page.bearers,
              status |-> page.status,
              text_augmented |-> page.enrich_mode \in {"append", "replace"}]

-----------------------------------------------------------------------------
(* Calls of _kv_table and of parse_article *)

\* the largest number of cells of a table
MaxCells == 3

\* the largest number of bearer rows and of body paragraphs of a page
MaxBearers == 2

MaxParas == 2

\* the texts of the cells: "leibie:" and "xiangmu bianhao:" with the
\* full-width colon, the values "chuantong jiyi" and "VI-1", "leibie: minsu"
\* with the ASCII colon, and "xiangmu bianhao:VI-1 leibie:" in one cell
CellTexts ==
    { <<"U+7C7BU+522B", "U+FF1A">>,
      <<"U+9879U+76EEU+7F16U+53F7", "U+FF1A">>,
      <<"U+4F20U+7EDFU+6280U+827A">>,
      <<"U+2165-1">>,
      <<"U+7C7BU+522B", ":", " ", "U+6C11U+4FD7">>,
      <<"U+9879U+76EEU+7F16U+53F7", "U+FF1A", "U+2165-1", " ",
        "U+7C7BU+522B", "U+FF1A">> }

\* the rows of a table whose cells are cs and whose rows end after the
\* positions of cuts, from cell number from on
RECURSIVE SplitRows(_, _, _)
SplitRows(cs, cuts, from) ==
    IF from > Len(cs) THEN << >>
    ELSE LET to == CHOOSE j \in from..Len(cs) :
                      /\ j = Len(cs) \/ j \in cuts
                      /\ \A k \in from..(j - 1) : ~(k \in cuts)
         IN  <<SubSeq(cs, from, to)>> \o SplitRows(cs, cuts, to + 1)

\* the tables of at most n cells in rows of one cell or more
TablesOf(n) ==
    UNION { {SplitRows(cs, cuts, 1) : cs \in [1..m -> CellTexts],
                                      cuts \in SUBSET (1..(m - 1))}
          : m \in 0..n }

Tables == TablesOf(MaxCells)

\* the table of the page with xiangmu bianhao VI-1 and leibie chuantong jiyi
ScenarioTable ==
    << << <<"U+9879U+76EEU+7F16U+53F7", "U+FF1A">>, <<"U+2165-1">>,
          <<"U+7C7BU+522B", "U+FF1A">>, <<"U+4F20U+7EDFU+6280U+827A">> >> >>

\* the tables of the pages: none, or a first table
PageTables == {<< >>, <<ScenarioTable>>} \cup {<<t>> : t \in TablesOf(1)}

\* rows of _table_rows (each has a value that is not empty): Zhang San, male,
\* Han; a row without name; a row with a column of a derived name (lie 3)
BearerRows ==
    { << <<"U+59D3U+540D", <<"U+5F20U+4E09">>>>, <<"U+6027U+522B", <<"U+7537">>>>,
         <<"U+6C11U+65CF", <<"U+6C49U+65CF">>>> >>,
      << <<"U+7F16U+53F7", <<"0", "1">>>>, <<"U+59D3U+540D", << >>>>,
         <<"U+6027U+522B", <<"U+7537">>>> >>,
      << <<"U+59D3U+540D", <<"U+5F20U+4E09">>>>, <<"U+52173", <<"x">>>> >> }

\* paragraphs of _extract_body_paragraphs: di yi duan., di er duan.
Paras == { <<"U+7B2CU+4E00U+6BB5", "U+3002">>, <<"U+7B2CU+4E8CU+6BB5", "U+3002">> }

SeqsUpTo(S, n) == UNION {[1..m -> S] : m \in 0..n}

\* the calls of _kv_table and the pages given to parse_article; a page
\* without table has no bearer rows (lines 360-371)
SpiderCalls ==
    {[f |-> "_kv_table", table |-> t] : t \in Tables}
    \cup {c \in [f : {"parse_article"}, status : {200}, tables : PageTables,
                 bearers : SeqsUpTo(BearerRows, MaxBearers),
                 body_paras : SeqsUpTo(Paras, MaxParas),
                 enrich_mode : {"none", "append", "replace"},
                 enrich_format : {"readable", "json"}]
            : c.tables = << >> => c.bearers = << >>}
    \cup {[f |-> "parse_article", status |-> 404, tables |-> <<ScenarioTable>>,
           bearers |-> << >>, body_paras |-> << >>, enrich_mode |-> "none",
           enrich_format |-> "readable"]}

SpiderInit ==
    /\ GateIdle
    /\ StoreIdle
    /\ fn = "none"
    /\ arg \in SpiderCalls
    /\ res = << >>

\* _kv_table(sel) for the first table of a page
CallKvTable ==
    /\ fn = "none"
    /\ arg.f = "_kv_table"
    /\ Returned(_kv_table(arg.table))

\* parse_article(response)
CallParseArticle ==
    /\ fn = "none"
    /\ arg.f = "parse_article"
    /\ Returned(parse_article(arg))

SpiderNext ==
    \/ CallKvTable
    \/ CallParseArticle

SpecSpider == SpiderInit /\ [][SpiderNext]_vars

-----------------------------------------------------------------------------
(* The readers of line-delimited files on files with lines that are no JSON:
   convert (data_process/convert_to_documents_and_chunks.py) and the two main
   functions, each run once against an empty store *)

\* the width of the id (line 40: 63 bits, of the 64 bits that 16 hex digits
\* hold), scaled down to the integers of the model checker
IdBits == 4

RECURSIVE Pow2(_)
Pow2(n) == IF n = 0 THEN 1 ELSE 2 * Pow2(n - 1)

\* str(n) of an integer
DigitChars == <<"0", "1", "2", "3", "4", "5", "6", "7", "8", "9">>

RECURSIVE Str(_)
Str(n) ==
    IF n < 0 THEN <<"-">> \o Str(0 - n)
    ELSE IF n < 10 THEN <<DigitChars[n + 1]>>
    ELSE Str(n \div 10) \o <<DigitChars[(n % 10) + 1]>>

IsDigit(c) == \E i \in DOMAIN DigitChars : DigitChars[i] = c

DigitOf(c) == (CHOOSE i \in DOMAIN DigitChars : DigitChars[i] = c) - 1

RECURSIVE DigitsValue(_, _)
DigitsValue(s, acc) ==
    IF s = << >> THEN acc ELSE DigitsValue(Tail(s), 10 * acc + DigitOf(Head(s)))

\* int(s) of a str: blanks around it are dropped, a sign may precede the
\* digits, anything else raises ValueError
IntOfStr(s) ==
    The({ IF t # << >> /\ Head(t) \in {"-", "+"} /\ Len(t) > 1
             /\ \A i \in 2..Len(t) : IsDigit(t[i])
          THEN [ok |-> TRUE,
                n |-> IF Head(t) = "-" THEN 0 - DigitsValue(Tail(t), 0)
                      ELSE DigitsValue(Tail(t), 0)]
          ELSE IF t # << >> /\ \A i \in DOMAIN t : IsDigit(t[i])
          THEN [ok |-> TRUE, n |-> DigitsValue(t, 0)]
          ELSE [ok |-> FALSE, n |-> 0]
        : t \in {Strip(s)} })

\* int(v) of what json.loads has returned for the key "id" (line 31): an int
\* is itself, a bool is 0 or 1, a float (here in tenths) is cut towards zero,
\* a str is parsed, a list raises TypeError
IntOf(v) ==
    IF v.t = "int" THEN [ok |-> TRUE, n |-> v.n]
    ELSE IF v.t = "bool" THEN [ok |-> TRUE, n |-> IF v.b THEN 1 ELSE 0]
    ELSE IF v.t = "float"
    THEN [ok |-> TRUE, n |-> IF v.tenths >= 0 THEN v.tenths \div 10
                             ELSE 0 - ((0 - v.tenths) \div 10)]
    ELSE IF v.t = "str" THEN IntOfStr(v.s)
    ELSE [ok |-> FALSE, n |-> 0]

\* "id" in obj and obj["id"] not in (None, ""), line 29
HasId(obj) ==
    /\ "id" \in DOMAIN obj
    /\ obj.id.t # "null"
    /\ ~(obj.id.t = "str" /\ obj.id.s = << >>)

\* (obj.get("url") or "").strip(), line 34
StrippedUrl(obj) ==
    IF "url" \in DOMAIN obj THEN Strip(OrEmpty(obj.url)) ELSE << >>

\* json.dumps(obj, ensure_ascii=False, sort_keys=True), line 37: the keys of
\* the line in sorted order, each followed by its value
SortedKeys ==
    <<"content_type", "domain", "extra", "fetched_at", "html", "id", "lang",
      "status", "text", "title", "url">>

DumpsValue(k, v) ==
    IF k \in {"fetched_at", "status"} THEN Str(v)
    ELSE IF k = "id"
    THEN (IF v.t = "int" THEN Str(v.n)
          ELSE IF v.t = "float" THEN Str(v.tenths) \o <<"e-1">>
          ELSE IF v.t = "bool" THEN <<IF v.b THEN "true" ELSE "false">>
          ELSE IF v.t = "str" THEN <<"\"">> \o v.s \o <<"\"">>
          ELSE IF v.t = "list" THEN <<"[", "]">>
          ELSE <<"null">>)
    ELSE IF k = "extra" THEN v
    ELSE IF v = Null THEN <<"null">>
    ELSE <<"\"">> \o v \o <<"\"">>

RECURSIVE DumpsSorted(_, _)
DumpsSorted(obj, keys) ==
    IF keys = << >> THEN << >>
    ELSE IF /\ Head(keys) \in DOMAIN obj
            /\ ~(Head(keys) = "fetched_at" /\ obj.fetched_at = NoTime)
    THEN <<Head(keys)>> \o DumpsValue(Head(keys), obj[Head(keys)])
         \o DumpsSorted(obj, Tail(keys))
    ELSE DumpsSorted(obj, Tail(keys))

\* the bytes a digest is computed from (the code of a token of the model)
Ord(c) ==
    CASE c = " " -> 32 [] c = "-" -> 45 [] c = "1" -> 49 [] c = "2" -> 50
      [] c = "7" -> 55 [] c = "a" -> 97 [] c = "b" -> 98 [] c = "h" -> 104
      [] c = "p" -> 112 [] c = "q" -> 113 [] c = "t" -> 116 [] c = "x" -> 120
      [] c = "y" -> 121 [] OTHER -> 63

RECURSIVE Fold(_, _)
Fold(s, acc) ==
    IF s = << >> THEN acc
    ELSE Fold(Tail(s), (5 * acc + Ord(Head(s)) + 1) % Pow2(IdBits + 1))

\* int(h, 16) of the first 16 hex digits of a digest, lines 37-40: 64 bits
\* that depend on the algorithm and on the text digested and on nothing else
\* (a checksum of the text stands for the digest)
Hex16(digest) == Fold(digest[2], IF digest[1] = "md5" THEN 1 ELSE 2)

\* stable_id, lines 27-40
stable_id(obj) ==
    IF HasId(obj) /\ IntOf(obj.id).ok THEN IntOf(obj.id).n
    ELSE IF StrippedUrl(obj) = << >>
    THEN Hex16(Md5(DumpsSorted(obj, SortedKeys))) % Pow2(IdBits)
    ELSE Hex16(Sha1(StrippedUrl(obj))) % Pow2(IdBits)

\* convert lines 102-130 and 132-149: the record of documents_min.jsonl and
\* the records of chunks.jsonl of one line (the lines of the model carry
\* neither meta nor bearers: no extra_json)
ConvertDoc(obj) ==
    [id |-> stable_id(obj), url |-> OrEmpty(obj.url),
     title |-> OrEmpty(obj.title), lang |-> OrEmpty(obj.lang),
     domain |-> OrEmpty(obj.domain), fetched_at_iso |-> to_iso(obj.fetched_at),
     text |-> OrEmpty(obj.text)]

ConvertChunks(obj) ==
    [i \in DOMAIN convert_chunks(OrEmpty(obj.text)) |->
        [document_id |-> stable_id(obj),
         chunk |-> convert_chunks(OrEmpty(obj.text))[i]]]

\* convert lines 94-149: the loop over the lines
RECURSIVE ConvertLoop(_, _)
ConvertLoop(file, out) ==
    IF file = << >> THEN out
    ELSE IF ~IsJson(Head(file)) THEN ConvertLoop(Tail(file), out)
    ELSE ConvertLoop(Tail(file),
             [docs_out |-> Append(out.docs_out, ConvertDoc(Head(file))),
              ch_out |-> out.ch_out \o ConvertChunks(Head(file)),
              docs |-> out.docs + 1,
              chunks_count |-> out.chunks_count
                               + Len(ConvertChunks(Head(file)))])

\* convert, lines 76-157: the two files written and the counters returned
convert(file) ==
    ConvertLoop(file, [docs_out |-> << >>, ch_out |-> << >>, docs |-> 0,
                       chunks_count |-> 0])

\* the files made of a file by one line that is no JSON, at any place
WithNotJson(file) ==
    {file} \cup {SubSeq(file, 1, i) \o <<NotJson>> \o SubSeq(file, i + 1, Len(file))
                    : i \in 0..Len(file)}

\* the runs: main of ingest_jsonl_to_db with --docs and --chunks, main of
\* ingest_jsonl_to_polardb, convert
ReaderCalls ==
    {[f |-> "ingest_jsonl_to_db.main", docs |-> d, chunks |-> c]
        : d \in UNION {WithNotJson(x) : x \in DocFiles},
          c \in UNION {WithNotJson(x) : x \in ChunkFiles}}
    \cup {[f |-> "ingest_jsonl_to_polardb.main", jsonl |-> j]
            : j \in UNION {WithNotJson(x) : x \in PolarInputs}}
    \cup {[f |-> "convert", input |-> j]
            : j \in UNION {WithNotJson(x)
                             : x \in {y \in PolarInputs
                                        : \A i \in DOMAIN y : y[i].kind = "dict"}}}

\* the values json.loads returns for the key "id": None, "", numbers inside
\* and outside the range of an id, a bool, floats, strs that int() takes and
\* refuses, a list
IdValues ==
    { [t |-> "null"], [t |-> "str", s |-> << >>],
      [t |-> "int", n |-> 0], [t |-> "int", n |-> 7],
      [t |-> "int", n |-> Pow2(IdBits) - 1], [t |-> "int", n |-> Pow2(IdBits)],
      [t |-> "int", n |-> 0 - 1],
      [t |-> "bool", b |-> TRUE],
      [t |-> "float", tenths |-> 25], [t |-> "float", tenths |-> 0 - 25],
      [t |-> "str", s |-> <<"1", "2">>], [t |-> "str", s |-> <<" ", "7", " ">>],
      [t |-> "str", s |-> <<"-", "7">>], [t |-> "str", s |-> <<"a", "b">>],
      [t |-> "str", s |-> <<" ">>], [t |-> "list"] }

\* the lines stable_id is called with: with and without the keys id and url
IdRecords ==
    UNION { {r, Put(r, "id", v), Put(r, "url", u), Put(Put(r, "id", v), "url", u)}
            : r \in {[title |-> <<"t">>], [title |-> <<"q">>]},
              v \in IdValues,
              u \in {Null, << >>, <<" ">>, U1, U1p, U2} }

StableIdCalls == {[f |-> "stable_id", obj |-> o] : o \in IdRecords}

\* what a run of ingest_jsonl_to_db.main leaves and reports
DbRun(call) ==
    The({ [err |-> st.err, out |-> Durable(st),
           counters |-> [docs_cnt |-> st.cnt]]
        : st \in {DbMain(EmptyDb, [docs |-> call.docs, chunks |-> call.chunks],
                         1, FALSE, 0)} })

\* what a run of ingest_jsonl_to_polardb.main leaves and reports
PolarRun(call) ==
    The({ [err |-> st.err, out |-> Durable(st),
           counters |-> [inserted_docs |-> st.cnt, bad_lines |-> st.bad]]
        : st \in {PolarMain(EmptyDb, call.jsonl, 1, FALSE, 0)} })

\* what convert writes and returns
ConvertRun(call) ==
    The({ [err |-> FALSE,
           out |-> [docs_out |-> o.docs_out, ch_out |-> o.ch_out],
           counters |-> [docs |-> o.docs, chunks_count |-> o.chunks_count]]
        : o \in {convert(call.input)} })

ReaderInit ==
    /\ GateIdle
    /\ StoreIdle
    /\ fn = "none"
    /\ arg \in ReaderCalls \cup StableIdCalls
    /\ res = << >>

CallDbMain ==
    /\ fn = "none"
    /\ arg.f = "ingest_jsonl_to_db.main"
    /\ Returned(DbRun(arg))

CallPolarMain ==
    /\ fn = "none"
    /\ arg.f = "ingest_jsonl_to_polardb.main"
    /\ Returned(PolarRun(arg))

CallConvert ==
    /\ fn = "none"
    /\ arg.f = "convert"
    /\ Returned(ConvertRun(arg))

\* stable_id(obj)
CallStableId ==
    /\ fn = "none"
    /\ arg.f = "stable_id"
    /\ Returned(stable_id(arg.obj))

ReaderNext ==
    \/ CallDbMain
    \/ CallPolarMain
    \/ CallConvert
    \/ CallStableId

SpecReaders == ReaderInit /\ [][ReaderNext]_vars

-----------------------------------------------------------------------------
(* Claims about the chunking engine *)

\* one of the two split_text functions has returned
SplitReturned == fn \in {"split_text", "convert.split_text"}

\* one of the two offset loops has returned
OffsetsReturned == fn \in {"auto_chunk_all", "convert"}

\* C11 as stated: no chunk of the list split_text returns, the last apart, is
\* shorter than min_chars.
C11_Original ==
    SplitReturned =>
        \A i \in 1..(Len(res) - 1) : Len(res[i]) >= arg.min_chars

\* C11: in the list split_text returns, a chunk other than the first that is
\* shorter than min_chars follows a chunk it could not be merged into:
\* len(previous) + len(chunk) + 1 > int(max_chars * 1.5).
C11_ShortOnlyIfUnmergeable ==
    SplitReturned =>
        \A i \in 2..Len(res) :
            Len(res[i]) < arg.min_chars =>
                Len(res[i - 1]) + Len(res[i]) + 1 > Limit(arg.max_chars)

\* a chunk that is short, neither first nor last, after a chunk too long to
\* take it
C11_Witness ==
    /\ SplitReturned
    /\ \E i \in 2..(Len(res) - 1) :
          /\ Len(res[i]) < arg.min_chars
          /\ Len(res[i - 1]) + Len(res[i]) + 1 > Limit(arg.max_chars)

\* " ".join(parts)
RECURSIVE JoinAll(_)
JoinAll(parts) ==
    IF parts = << >> THEN << >>
    ELSE IF Len(parts) = 1 THEN Head(parts)
    ELSE Head(parts) \o <<" ">> \o JoinAll(Tail(parts))

\* chunks are consecutive groups of parts, each group joined by one blank,
\* with no part left over
RECURSIVE Covers(_, _)
Covers(chunks, parts) ==
    IF chunks = << >> THEN parts = << >>
    ELSE \E k \in 1..Len(parts) :
            /\ JoinAll(SubSeq(parts, 1, k)) = Head(chunks)
            /\ Covers(Tail(chunks), SubSeq(parts, k + 1, Len(parts)))

\* C12: the chunks split_text returns are the trimmed non-empty fragments of
\* the text, in their order, none lost, repeated or cut, grouped into
\* consecutive groups that are each joined by a single blank.
C12_CoversFragments == SplitReturned => Covers(res, Parts(arg.text))

\* several fragments, several chunks, one of them of more than one fragment
C12_Witness ==
    /\ SplitReturned
    /\ Len(res) >= 2
    /\ Len(Parts(arg.text)) > Len(res)
    /\ Len(res[1]) < Len(arg.text)

\* a text of 2500 characters has been split at 1000 and 600
Split2500 ==
    /\ fn = "convert.split_text"
    /\ Len(arg.text) = 2500
    /\ arg.max_chars = 1000
    /\ arg.min_chars = 600

\* C13 as stated: every text of 2500 characters gives exactly 3 chunks.
C13_Original == Split2500 => Len(res) = 3

\* C13: a text of 2500 characters that consists of three fragments of at
\* least 600 characters each gives exactly 3 chunks at max_chars = 1000 and
\* min_chars = 600.
C13_ThreeFragments ==
    (/\ Split2500
     /\ Len(Parts(arg.text)) = 3
     /\ \A i \in 1..3 : Len(Parts(arg.text)[i]) >= 600) => Len(res) = 3

\* three fragments that two by two would fit a buffer of 1500
C13_Witness ==
    /\ Split2500
    /\ Len(Parts(arg.text)) = 3
    /\ \A i \in 1..3 : Len(Parts(arg.text)[i]) >= 600
    /\ Len(Parts(arg.text)[1]) + Len(Parts(arg.text)[2]) + 1 <= 1500
    /\ Len(res) = 3

\* text[s:e] of Python for e >= 0
PySlice(text, s, e) ==
    LET from == IF s < 0 THEN Max(0, Len(text) + s) ELSE Min(s, Len(text))
        to == Min(e, Len(text))
    IN  IF from >= to THEN << >> ELSE SubSeq(text, from + 1, to)

\* C14: for every chunk record whose content occurs in the text,
\* text[char_start:char_end] is the content.
C14_OffsetsOfVerbatimChunks ==
    OffsetsReturned =>
        \A i \in 1..Len(res) :
            Find(arg.text, res[i].content, 0) >= 0 =>
                PySlice(arg.text, res[i].char_start, res[i].char_end)
                    = res[i].content

\* a chunk that occurs in the text only before the cursor, found by the
\* second search, next to a chunk that does not occur in the text
C14_Witness ==
    /\ OffsetsReturned
    /\ \E i \in 2..Len(res) :
          /\ res[i].char_start >= 0
          /\ res[i].char_start < res[i - 1].char_end
          /\ Find(arg.text, res[i].content, res[i - 1].char_end) < 0

\* C15: for a non-empty text and 0 <= overlap < size, the chunks of
\* make_chunks start at 0, hold text[char_start:char_end], have length size
\* except the last, start overlap characters before the end of the chunk
\* before, and end at the end of the text.
C15_SlidingWindow ==
    (fn = "make_chunks" /\ arg.text # << >>) =>
        /\ Len(res) >= 1
        /\ res[1].char_start = 0
        /\ res[Len(res)].char_end = Len(arg.text)
        /\ \A i \in 1..Len(res) :
              /\ res[i].content
                    = PySlice(arg.text, res[i].char_start, res[i].char_end)
              /\ i < Len(res) =>
                    /\ res[i].char_end - res[i].char_start = arg.size
                    /\ res[i + 1].char_start = res[i].char_end - arg.overlap

\* three chunks or more that overlap, the last one shorter than size
C15_Witness ==
    /\ fn = "make_chunks"
    /\ arg.overlap > 0
    /\ Len(res) >= 3
    /\ Len(res[Len(res)].content) < arg.size

-----------------------------------------------------------------------------
(* Claims about the text synthesizer and the table interpreter *)

\* parse_article has yielded an item
ParseReturned == fn = "parse_article" /\ arg.status = 200

\* the blocks of the item, and the two of them
RenderedBlocks == Blocks(res.meta, res.bearers, arg.enrich_format)

MetaBlock ==
    IF arg.enrich_format = "json" THEN _block_meta_json(res.meta)
    ELSE _block_meta_readable(res.meta)

BearersBlock ==
    IF arg.enrich_format = "json" THEN _block_bearers_json(res.bearers)
    ELSE _block_bearers_readable(res.bearers)

\* the meta block, the ruler, the bearers block, without the ruler when one
\* of the two is empty
BlocksText ==
    IF MetaBlock # << >> /\ BearersBlock # << >>
    THEN MetaBlock \o RULER \o BearersBlock
    ELSE MetaBlock \o BearersBlock

\* "\n".join(body_paras)
BodyText == JoinWith(arg.body_paras, <<"\n">>)

\* C16 as stated: with enrich_mode "replace" and a meta mapping or a bearers
\* list that is not empty, no body paragraph occurs in the text.
C16_Original ==
    (/\ ParseReturned
     /\ arg.enrich_mode = "replace"
     /\ (res.meta # << >> \/ res.bearers # << >>)) =>
        \A i \in DOMAIN arg.body_paras :
            Find(res.text, arg.body_paras[i], 0) < 0

\* C16: with enrich_mode "replace" and at least one rendered block that is
\* not empty, the text is the blocks joined by the ruler, the same text as
\* for the page without its body paragraphs, in both formats.
C16_ReplaceIsBlocksOnly ==
    (/\ ParseReturned
     /\ arg.enrich_mode = "replace"
     /\ (MetaBlock # << >> \/ BearersBlock # << >>)) =>
        /\ res.text = BlocksText
        /\ res.text = parse_article([arg EXCEPT !.body_paras = << >>]).text

\* a page with body paragraphs and both blocks, in replace mode
C16_Witness ==
    /\ ParseReturned
    /\ arg.enrich_mode = "replace"
    /\ arg.body_paras # << >>
    /\ MetaBlock # << >>
    /\ BearersBlock # << >>
    /\ res.text = BlocksText

MetaLinesText ==
    JoinWith([i \in DOMAIN res.meta |->
                 <<res.meta[i][1], "U+FF1A">> \o res.meta[i][2]], <<"\n">>)

\* the page of the scenario: xiangmu bianhao VI-1, leibie chuantong jiyi, the
\* paragraphs di yi duan. and di er duan.
ScenarioPage ==
    /\ arg.tables = <<ScenarioTable>>
    /\ arg.body_paras = << <<"U+7B2CU+4E00U+6BB5", "U+3002">>,
                           <<"U+7B2CU+4E8CU+6BB5", "U+3002">> >>

ScenarioText ==
    << "U+9879U+76EEU+7F16U+53F7", "U+FF1A", "U+2165-1", "\n",
       "U+7C7BU+522B", "U+FF1A", "U+4F20U+7EDFU+6280U+827A", "\n", "\n",
       "U+7B2CU+4E00U+6BB5", "U+3002", "\n", "U+7B2CU+4E8CU+6BB5", "U+3002" >>

\* C18: with enrich_mode "none", the text is one line label, colon, value per
\* meta entry in the order of the mapping, a blank line exactly when there
\* are meta lines and paragraphs, and the paragraphs one per line; the
\* bearers change nothing in it; the page of the scenario gives its text.
C18_NoneIsMetaLinesThenBody ==
    (ParseReturned /\ arg.enrich_mode = "none") =>
        /\ res.text = IF res.meta # << >> /\ arg.body_paras # << >>
                      THEN MetaLinesText \o <<"\n", "\n">> \o BodyText
                      ELSE MetaLinesText \o BodyText
        /\ res.text = parse_article([arg EXCEPT !.bearers = << >>]).text
        /\ ScenarioPage => res.text = ScenarioText

\* the page of the scenario with bearer rows, in none mode
C18_Witness ==
    /\ ParseReturned
    /\ arg.enrich_mode = "none"
    /\ ScenarioPage
    /\ arg.bearers # << >>
    /\ res.meta = << <<"U+9879U+76EEU+7F16U+53F7", <<"U+2165-1">> >>,
                     <<"U+7C7BU+522B", <<"U+4F20U+7EDFU+6280U+827A">> >> >>
    /\ res.text = ScenarioText

\* what the two strategies yield for the cells of one row, in the order in
\* which _kv_table takes them
RECURSIVE InsideYields(_)
InsideYields(cells) ==
    IF cells = << >> THEN << >>
    ELSE _parse_meta_row_inside_cell(Head(cells)) \o InsideYields(Tail(cells))

\* what the two strategies yield for the rows of a table, in that order
RECURSIVE Yields(_)
Yields(rows) ==
    IF rows = << >> THEN << >>
    ELSE _parse_meta_row_by_pairs(NonEmpty(Head(rows)))
         \o InsideYields(NonEmpty(Head(rows)))
         \o Yields(Tail(rows))

\* the first value of a label among the yields that is not empty, << >> when
\* there is none
FirstValue(ys, k) ==
    LET hits == SelectSeq(ys, LAMBDA y : y[1] = k /\ y[2] # << >>)
    IN  IF hits = << >> THEN << >> ELSE hits[1][2]

\* C19: the value _kv_table returns for a label is the first value that is
\* not empty among those the two strategies yield for it, rows in order and
\* in a row the pairing across cells before the pairing inside the cells.
C19_FirstNonEmptyWins ==
    fn = "_kv_table" =>
        \A k \in META_KEYS_SET :
            DictGet(res, k) = FirstValue(Yields(arg.table), k)

-----------------------------------------------------------------------------
(* Claims about lines that are no JSON *)

\* a file without its lines that are no JSON, and the number of those lines
Clean(file) == SelectSeq(file, IsJson)

NumNotJson(file) == Len(file) - Len(Clean(file))

\* the run of the same reader over the files without those lines
CleanRun ==
    IF arg.f = "ingest_jsonl_to_db.main"
    THEN DbRun([arg EXCEPT !.docs = Clean(arg.docs), !.chunks = Clean(arg.chunks)])
    ELSE IF arg.f = "ingest_jsonl_to_polardb.main"
    THEN PolarRun([arg EXCEPT !.jsonl = Clean(arg.jsonl)])
    ELSE ConvertRun([arg EXCEPT !.input = Clean(arg.input)])

\* the lines of the files of the run that are no JSON
NotJsonLines ==
    IF arg.f = "ingest_jsonl_to_db.main"
    THEN NumNotJson(arg.docs) + NumNotJson(arg.chunks)
    ELSE IF arg.f = "ingest_jsonl_to_polardb.main" THEN NumNotJson(arg.jsonl)
    ELSE NumNotJson(arg.input)

ReaderReturned ==
    fn \in {"ingest_jsonl_to_db.main", "ingest_jsonl_to_polardb.main", "convert"}

\* C20: every reader passes over a line that is no JSON, goes on with the
\* lines after it and writes their records as it does without that line, and
\* counts the line.
C20_NotJsonSkippedAndCounted ==
    (ReaderReturned /\ NotJsonLines > 0) =>
        /\ res.err = CleanRun.err
        /\ res.out = CleanRun.out
        /\ "bad_lines" \in DOMAIN res.counters
        /\ res.counters.bad_lines = CleanRun.counters.bad_lines + NotJsonLines

-----------------------------------------------------------------------------
(* Claims about stable_id *)

StableIdReturned == fn = "stable_id"

\* the line carries an id that int() converts
ExplicitId == HasId(arg.obj) /\ IntOf(arg.obj.id).ok

\* C21: stable_id returns an integer of the width of an id that is not
\* negative; it is the explicit id of the line when the line has one that
\* converts to an integer, and otherwise it is the same for every line with
\* the same stripped url (the same as for the line that holds that url only)
\* when the url is not blank.
C21_StableIdInRange ==
    StableIdReturned =>
        /\ res \in 0..(Pow2(IdBits) - 1)
        /\ ExplicitId => res = IntOf(arg.obj.id).n
        /\ (~ExplicitId /\ StrippedUrl(arg.obj) # << >>) =>
               res = stable_id([url |-> StrippedUrl(arg.obj)])

-----------------------------------------------------------------------------
(* Claims about the loop of make_chunks *)

\* C22: make_chunks returns for every text, every size >= 1 and every
\* overlap >= 0, and from one iteration of its loop to the next the start of
\* the window grows.
C22_MakeChunksTerminates ==
    /\ <>(fn = "make_chunks")
    /\ [][(fn = "make_chunks:46" /\ fn' = "make_chunks:46")
            => arg'.start > arg.start]_vars

-----------------------------------------------------------------------------
(* Claims about the chunks of a document whose text has changed *)

\* the chunks the script of this behaviour computes from a row of documents:
\* auto_chunk_all from text, insert_chunks from text or else raw_html
ChunksOfRow(row) ==
    IF impl = "db"
    THEN (IF row.text = Null THEN << >> ELSE auto_chunks(row.text, AutoChunkSize))
    ELSE make_chunks(IF row.text # << >> THEN row.text ELSE row.raw_html,
                     ChunkSize, Overlap)

\* the rows of chunks of every document are the chunks of its stored text,
\* one row per chunk and no other row
ChunksAreOfText(d) ==
    \A u \in DOMAIN d.docs :
        /\ \A i \in 1..Len(ChunksOfRow(d.docs[u])) :
              <<d.docs[u].id, i - 1>> \in DOMAIN d.chunks
        /\ \A k \in DOMAIN d.chunks :
              k[1] = d.docs[u].id =>
                  /\ k[2] < Len(ChunksOfRow(d.docs[u]))
                  /\ d.chunks[k].content = ChunksOfRow(d.docs[u])[k[2] + 1].content
                  /\ d.chunks[k].char_start
                        = ChunksOfRow(d.docs[u])[k[2] + 1].char_start

\* the run under study computes the chunks from the stored texts
ChunksComputed == impl = "polardb" \/ input.chunks = NoChunksFile

\* C23: when the runs of a script that computes the chunks have ended, the
\* rows of chunks of every document are exactly the chunks of the text the
\* document now has, also when a run has replaced a text by one of fewer
\* chunks (the store before the run under study being in that condition).
C23_ChunksFollowText ==
    (/\ phase \in {"ran", "reran", "recovered"}
     /\ ~err
     /\ ChunksComputed
     /\ ChunksAreOfText(base)) => ChunksAreOfText(db)

-----------------------------------------------------------------------------
(* Claims about the rollback of ingest_jsonl_to_polardb.main *)

PolarReturned == fn = "ingest_jsonl_to_polardb.main"

\* the line reaches inserted_docs += 1 (line 226): json.loads,
\* upsert_document and insert_chunks have not raised on it
Counted(line) == IsJson(line) /\ line.kind = "dict"

\* upsert_document raises on the line (lines 209-214)
Fails(line) == IsJson(line) /\ line.kind # "dict"

\* the row of documents of the line and the rows of chunks of its text are
\* in the tables d
Stored(line, d) ==
    /\ polar_ensure_url(line) \in DOMAIN d.docs
    /\ \A i \in 1..Len(make_chunks(BaseText(line), ChunkSize, Overlap)) :
          <<d.docs[polar_ensure_url(line)].id, i - 1>> \in DOMAIN d.chunks

\* C24: when ingest_jsonl_to_polardb.main has ended, every line it has
\* counted in inserted_docs has its row of documents and its rows of chunks in
\* the committed tables, also when upsert_document has raised on another line.
C24_CountedIsCommitted ==
    PolarReturned =>
        \A i \in DOMAIN arg.jsonl :
            Counted(arg.jsonl[i]) => Stored(arg.jsonl[i], res.out)

-----------------------------------------------------------------------------
(* Claims about the offsets of chunks that are not in the text *)

\* C25: every chunk record of convert and every chunk row of auto_chunk_all
\* has 0 <= char_start <= char_end <= len(text), also a chunk packed from
\* several fragments with a blank where the separator was.
C25_OffsetsInsideText ==
    OffsetsReturned =>
        \A i \in 1..Len(res) :
            /\ 0 <= res[i].char_start
            /\ res[i].char_start <= res[i].char_end
            /\ res[i].char_end <= Len(arg.text)

=============================================================================
